---------------------------- MODULE Spec2Model ----------------------------
(***************************************************************************)
(* A model of gogrepo.py: the file-name deduplicator (deDuplicateList /    *)
(* deDuplicateName), the manifest merge of cmd_update and the worker pool  *)
(* of cmd_download.                                                         *)
(*                                                                         *)
(* File names are sequences of one-character strings, so that splitext,    *)
(* rfind("-"), int() and the string concatenations of deDuplicateName are  *)
(* computed as the code computes them.                                     *)
(***************************************************************************)
EXTENDS Integers, Sequences, FiniteSets, TLC

VARIABLES
    \* ---- deduplicator (deDuplicateList called with a shared clashDict)
    dd_in,      \* every entry fed so far, in order (history)
    dd_seen,    \* existingItems / clashDict: name -> list of (md5, size)
    dd_out,     \* the kept entries, in order, each with the index it had in dd_in
    dd_calls,   \* number of deDuplicateList calls made with this clashDict
    \* ---- cmd_download
    dl_sel,     \* the selected entries of the manifest, in order: [name, size]
    fs,         \* the local directory: path -> [exists, data] (data: bytes)
    fs0,        \* the local directory as cmd_download found it (history)
    main,       \* the scheduler: "start", "waiting", "reporting", "returned",
                \* "crashed", "interrupted", "exited"
    work,       \* the work queue: (sz, start, end, path) records, FIFO
    sizes,      \* remaining bytes, per queued path
    rates,      \* throughput samples since the last report, per path
    pc,         \* per worker: its position in worker()
    cur,        \* per worker: the work item it holds
    pos,        \* per worker: out.tell()
    got,        \* per worker: bytes of the response body read so far
    hist,       \* history: what was queued, pulled, requested, finished
    \* ---- cmd_update
    up_remote,  \* the account's product listing, in the order the pages give it
    up_opts,    \* the options cmd_update is invoked with
    up_disk,    \* the manifest file: a list of items
    up_prev,    \* the manifest file before the last run (history)
    up_first,   \* the manifest file before the first run (history)
    up_runs,    \* cmd_update runs made so far
    mf_items,   \* save_manifest: the items handed to it
    mf_file,    \* the manifest file: its text, or NoFile
    mf_old,     \* the manifest file before save_manifest was called (history)
    mf_pc,      \* save_manifest: "idle", "writing", "saved", "crashed"; "loaded"
                \* when the command only loads
    mf_n,       \* save_manifest: pieces written so far
    mf_loaded,  \* what a later load_manifest returned, NotLoaded before it
    vf_manifest, \* cmd_verify: the manifest file (the game it holds)
    vf_opts,    \* cmd_verify: check_md5, check_filesize, check_zips, remedy
    vf_dir,     \* the files of the game directory, by name
    vf_orphan,  \* the files of the game's !orphaned directory, by name
    vf_dir0,    \* the game directory as the run found it (history)
    vf_orphan0, \* the !orphaned directory as the run found it (history)
    vf_game,    \* cmd_verify: the game in memory, its entries as verified so far
    vf_pc,      \* cmd_verify: "idle", "start", "checking", "done", "crashed"
    vf_i,       \* cmd_verify: entries gone through
    vf_cnt,     \* cmd_verify: the counters of the totals
    vf_reload,  \* what load_manifest returns after the verify run
    rq_pc,      \* request(): "idle", "call", "returned", "raised"
    rq_retries, \* request(): the retries argument of the present call
    rq_delay,   \* request(): the delay argument of the present call
    rq_log,     \* the attempts made: what each came to, after which delay
    rq_result   \* what request() returned or raised

ddVars == <<dd_in, dd_seen, dd_out, dd_calls>>
dlVars == <<dl_sel, fs, fs0, main, work, sizes, rates, pc, cur, pos, got, hist>>
upVars == <<up_remote, up_opts, up_disk, up_prev, up_first, up_runs>>
mfVars == <<mf_items, mf_file, mf_old, mf_pc, mf_n, mf_loaded>>
vfVars == <<vf_manifest, vf_opts, vf_dir, vf_orphan, vf_dir0, vf_orphan0, vf_game, vf_pc, vf_i, vf_cnt, vf_reload>>
rqVars == <<rq_pc, rq_retries, rq_delay, rq_log, rq_result>>
vars == <<ddVars, dlVars, upVars, mfVars, vfVars, rqVars>>
\* what each command leaves alone
nonDdVars == <<dlVars, upVars, mfVars, vfVars, rqVars>>
nonDlVars == <<ddVars, upVars, mfVars, vfVars, rqVars>>
nonUpVars == <<ddVars, dlVars, mfVars, vfVars, rqVars>>
nonMfVars == <<ddVars, dlVars, upVars, vfVars, rqVars>>
nonVfVars == <<ddVars, dlVars, upVars, mfVars, rqVars>>
nonRqVars == <<ddVars, dlVars, upVars, mfVars, vfVars>>

(***************************************************************************)
(* Values                                                                  *)
(***************************************************************************)
\* Python's None for a name (a token no file name holds)
None == <<"<None>">>
\* Python's None for an md5
NoMd5 == "None"

Digits == <<"0", "1", "2", "3", "4", "5", "6", "7", "8", "9">>
DigitSet == {Digits[i] : i \in 1..10}

\* str(n) for n >= 0
RECURSIVE Str(_)
Str(n) == IF n < 10 THEN <<Digits[n + 1]>> ELSE Str(n \div 10) \o <<Digits[(n % 10) + 1]>>

\* s.rfind(c): the last 0-based index of c in s, -1 when absent
RFind(s, c) ==
    LET hits == {i \in 1..Len(s) : s[i] = c}
    IN  IF hits = {} THEN 0 - 1 ELSE (CHOOSE i \in hits : \A j \in hits : j <= i) - 1

\* int(s) succeeds (no ValueError); names hold no sign, blank or underscore
IsInt(s) == Len(s) > 0 /\ \A i \in 1..Len(s) : s[i] \in DigitSet

\* s[from:] and s[:to] with 0-based Python indices, 0 <= from, to
SliceFrom(s, from) == SubSeq(s, from + 1, Len(s))
SliceTo(s, to) == SubSeq(s, 1, to)

\* os.path.splitext for a name without directory separators: the extension
\* starts at the last dot, unless only dots precede it
SplitExt(p) ==
    LET dotIndex == RFind(p, ".")
    IN  IF dotIndex > 0 /\ \E i \in 1..dotIndex : p[i] # "."
        THEN [root |-> SliceTo(p, dotIndex), ext |-> SliceFrom(p, dotIndex)]
        ELSE [root |-> p, ext |-> <<>>]

BinExt == <<".", "b", "i", "n">>

\* mutant of the rename: the ordinal is always 1
RenamedName_AlwaysOne(name, n) ==
    LET dotIndex == RFind(name, ".")
    IN  SliceTo(name, dotIndex) \o <<"(", "1", ")">> \o SliceFrom(name, dotIndex)

\* mutant of the rename: a .bin name is treated like any other
RenamedName_NoSegment(name, n) ==
    LET dotIndex == RFind(name, ".")
    IN  SliceTo(name, dotIndex) \o <<"(">> \o Str(n) \o <<")">> \o SliceFrom(name, dotIndex)

\* the name deDuplicateName tries next, with n = len(existingList)
RenamedName(name, n) ==
    LET se == SplitExt(name)
        root == se.root
        ext == se.ext
        ord == <<"(">> \o Str(n) \o <<")">>
        found == RFind(root, "-")
        \* int(root[setDelimiter+1:]) raising ValueError resets setDelimiter to -1
        setDelimiter == IF IsInt(SliceFrom(root, found + 1)) THEN found ELSE 0 - 1
    IN  IF ext # BinExt
        THEN root \o ord \o ext
        ELSE IF setDelimiter = 0 - 1
             THEN root \o ord \o ext
             ELSE SliceTo(root, setDelimiter) \o ord \o SliceFrom(root, setDelimiter) \o ext

SeqsUpTo(S, n) == UNION {[1..k -> S] : k \in 0..n}

InList(l, x) == \E i \in 1..Len(l) : l[i] = x

\* mutant of deDuplicateName: renames once and takes the new name without
\* looking it up again
DeDuplicateName_NoRecheck(name, pair, clashDict) ==
    IF name \in DOMAIN clashDict
    THEN IF InList(clashDict[name], pair)
         THEN [name |-> None, seen |-> clashDict]
         ELSE LET new == RenamedName(name, Len(clashDict[name]))
              IN  [name |-> new,
                   seen |-> [n \in DOMAIN clashDict \cup {new} |->
                               IF n = new THEN <<pair>>
                               ELSE IF n = name THEN Append(clashDict[n], pair)
                               ELSE clashDict[n]]]
    ELSE [name |-> name,
          seen |-> [n \in DOMAIN clashDict \cup {name} |->
                       IF n = name THEN <<pair>> ELSE clashDict[n]]]

\* deDuplicateName(potentialItem, clashDict): the returned name (None when the
\* entry is to be skipped) and the clashDict as the call leaves it
RECURSIVE DeDuplicateName(_, _, _)
DeDuplicateName(name, pair, clashDict) ==
    IF name \in DOMAIN clashDict
    THEN LET existingList == clashDict[name]
         IN  IF InList(existingList, pair)
             THEN [name |-> None, seen |-> clashDict]
             ELSE DeDuplicateName(RenamedName(name, Len(existingList)), pair,
                                  [clashDict EXCEPT ![name] = Append(existingList, pair)])
    ELSE [name |-> name,
          seen |-> [n \in DOMAIN clashDict \cup {name} |->
                       IF n = name THEN <<pair>> ELSE clashDict[n]]]

\* mutant of deDuplicateList: the clashDict handed in is left as it was and a
\* fresh one is used, so nothing is remembered from call to call
RECURSIVE DeDuplicateList_FreshDict(_, _, _)
DeDuplicateList_FreshDict(duplicatedList, existingItems, acc) ==
    IF duplicatedList = <<>>
    THEN [out |-> acc, seen |-> [n \in {} |-> <<>>]]
    ELSE LET update_item == Head(duplicatedList)
             rest == Tail(duplicatedList)
         IN  IF update_item.name # None
             THEN LET r == DeDuplicateName(update_item.name,
                                           <<update_item.md5, update_item.size>>,
                                           existingItems)
                  IN  IF r.name # None
                      THEN DeDuplicateList_FreshDict(rest, r.seen,
                               Append(acc, [update_item EXCEPT !.name = r.name]))
                      ELSE DeDuplicateList_FreshDict(rest, r.seen, acc)
             ELSE DeDuplicateList_FreshDict(rest, existingItems, Append(acc, update_item))

\* mutant of deDuplicateList: the name is not tested for None, a placeholder
\* goes through deDuplicateName like any entry
RECURSIVE DeDuplicateList_NoNoneTest(_, _, _)
DeDuplicateList_NoNoneTest(duplicatedList, existingItems, acc) ==
    IF duplicatedList = <<>>
    THEN [out |-> acc, seen |-> existingItems]
    ELSE LET update_item == Head(duplicatedList)
             rest == Tail(duplicatedList)
             r == DeDuplicateName(update_item.name,
                                  <<update_item.md5, update_item.size>>,
                                  existingItems)
         IN  IF r.name # None
             THEN DeDuplicateList_NoNoneTest(rest, r.seen,
                      Append(acc, [update_item EXCEPT !.name = r.name]))
             ELSE DeDuplicateList_NoNoneTest(rest, r.seen, acc)

\* deDuplicateList(duplicatedList, existingItems); entries carry the index
\* (idx) they were fed at, which the code's objects carry as their identity
RECURSIVE DeDuplicateList(_, _, _)
DeDuplicateList(duplicatedList, existingItems, acc) ==
    IF duplicatedList = <<>>
    THEN [out |-> acc, seen |-> existingItems]
    ELSE LET update_item == Head(duplicatedList)
             rest == Tail(duplicatedList)
         IN  IF update_item.name # None
             THEN LET r == DeDuplicateName(update_item.name,
                                           <<update_item.md5, update_item.size>>,
                                           existingItems)
                  IN  IF r.name # None
                      THEN DeDuplicateList(rest, r.seen,
                               Append(acc, [update_item EXCEPT !.name = r.name]))
                      ELSE DeDuplicateList(rest, r.seen, acc)
             ELSE DeDuplicateList(rest, existingItems, Append(acc, update_item))

EmptyDict == [n \in {} |-> <<>>]

\* the deduplicator before its first call
DedupIdle ==
    /\ dd_in = <<>>
    /\ dd_seen = EmptyDict
    /\ dd_out = <<>>
    /\ dd_calls = 0

\* Python's None for a size
NoSize == 0 - 1

\* file names of the model
N_a == <<"a", ".", "x">>
N_a1 == <<"a", "(", "1", ")", ".", "x">>
N_g1 == <<"g", "-", "1", ".", "b", "i", "n">>
N_ga == <<"g", "-", "a", ".", "b", "i", "n">>

(***************************************************************************)
(* request(): one attempt, then a retry or the end of the call             *)
(* (lines 158-188).                                                        *)
(***************************************************************************)
HTTP_FETCH_DELAY == 1
HTTP_RETRY_DELAY == 5
HTTP_RETRY_COUNT == 3
HTTP_PERM_ERRORCODES == {404, 403, 503}

\* HTTPError codes an attempt may end with
HttpCodes == HTTP_PERM_ERRORCODES \cup {500}
\* what opener.open(req) comes to: a response, an HTTPError with its code,
\* another exception the except clause names, or one it does not name
NonHttpErrors == {"URLError", "socket.error", "BadStatusLine"}
Attempts ==
    {[kind |-> "response", code |-> 200]}
        \cup {[kind |-> "HTTPError", code |-> c] : c \in HttpCodes}
        \cup {[kind |-> k, code |-> 0] : k \in NonHttpErrors \cup {"other"}}

\* except (HTTPError, URLError, socket.error, BadStatusLine)
Caught(a) == a.kind = "HTTPError" \/ a.kind \in NonHttpErrors

\* mutant of lines 175-178: no code is permanent
IsPermanent_Never(a) == FALSE

\* isinstance(e, HTTPError) and e.code in HTTP_PERM_ERRORCODES
IsPermanent(a) == a.kind = "HTTPError" /\ a.code \in HTTP_PERM_ERRORCODES

\* mutant of line 179: one more retry
MayRetry_OneMore(retries) == retries >= 0

\* if retries > 0
MayRetry(retries) == retries > 0

NoAttempt == [kind |-> "none", code |-> 0]

RequestIdle ==
    /\ rq_pc = "idle"
    /\ rq_retries = HTTP_RETRY_COUNT
    /\ rq_delay = HTTP_FETCH_DELAY
    /\ rq_log = <<>>
    /\ rq_result = NoAttempt

(***************************************************************************)
(* The manifest file: save_manifest writes the header and the pprint of    *)
(* the items, load_manifest reads the text, rewrites its braces and        *)
(* evaluates it (lines 260-274).                                           *)
(***************************************************************************)
\* bound: the length of a text field of an item
MaxText == 2

\* the characters of a text field; quotes and backslashes, which repr would
\* escape, are left out
TextChars == {"a", "{", "}"}
Texts == SeqsUpTo(TextChars, MaxText)

\* the manifest file does not exist
NoFile == <<"<absent>">>
\* what load_manifest came to: not called yet, the list it returned, or the
\* SyntaxError eval(ad) raised
NotLoaded == [tag |-> "not loaded", items |-> <<>>]
Loaded(items) == [tag |-> "returned", items |-> items]
SyntaxError == [tag |-> "SyntaxError", items |-> <<>>]

\* concatenation of a sequence of sequences
RECURSIVE Flatten(_)
Flatten(ss) == IF ss = <<>> THEN <<>> ELSE Head(ss) \o Flatten(Tail(ss))

\* repr of a str without quotes or backslashes
Repr(text) == <<"'">> \o text \o <<"'">>

\* pprint of an AttrDict: a dict display, keys sorted
ReprItem(item) ==
    <<"{", "'", "id", "'", ":", <<"1", "2", "3">>[item.id], ",", "'", "title", "'", ":">>
        \o Repr(item.title) \o <<"}">>

\* the pieces save_manifest writes, in order: the header line, then the list
\* display item by item
Pieces(items) ==
    <<<<"#">> \o Str(Len(items)) \o <<"games", "\n">>>>
        \o (IF items = <<>>
            THEN <<<<"[", "]", "\n">>>>
            ELSE [i \in 1..Len(items) |->
                     (IF i = 1 THEN <<"[">> ELSE <<>>) \o ReprItem(items[i])
                        \o (IF i = Len(items) THEN <<"]", "\n">> ELSE <<",">>)])

\* the text of a complete save
Serialized(items) == Flatten(Pieces(items))

\* r.read().replace('{', 'AttrDict(**{').replace('}', '})')
ReplaceBraces(text) ==
    Flatten([i \in 1..Len(text) |->
                IF text[i] = "{" THEN <<"AttrDict(**", "{">>
                ELSE IF text[i] = "}" THEN <<"}", ")">>
                ELSE <<text[i]>>])

\* text starts with the tokens of prefix
StartsWith(text, prefix) ==
    Len(text) >= Len(prefix) /\ SubSeq(text, 1, Len(prefix)) = prefix

\* the position of the first token c of text, 0 when there is none
Find(text, c) ==
    IF \E i \in 1..Len(text) : text[i] = c
    THEN CHOOSE i \in 1..Len(text) : text[i] = c /\ \A j \in 1..(i - 1) : text[j] # c
    ELSE 0

ItemOpen == <<"AttrDict(**", "{", "'", "id", "'", ":">>
ItemMid == <<",", "'", "title", "'", ":", "'">>
ItemClose == <<"}", ")">>

\* eval of one AttrDict(**{...}) call at the head of text
EvalItem(text) ==
    LET t1 == SubSeq(text, Len(ItemOpen) + 1, Len(text))
        t2 == SubSeq(t1, 2, Len(t1))
        t3 == SubSeq(t2, Len(ItemMid) + 1, Len(t2))
        q == Find(t3, "'")
        t4 == SubSeq(t3, q + 1, Len(t3))
    IN  IF StartsWith(text, ItemOpen) /\ t1 # <<>> /\ t1[1] \in {"1", "2", "3"}
            /\ StartsWith(t2, ItemMid) /\ q > 0 /\ StartsWith(t4, ItemClose)
        THEN [ok |-> TRUE,
              item |-> [id |-> CHOOSE n \in 1..3 : <<"1", "2", "3">>[n] = t1[1],
                        title |-> SubSeq(t3, 1, q - 1)],
              rest |-> SubSeq(t4, Len(ItemClose) + 1, Len(t4))]
        ELSE [ok |-> FALSE, item |-> <<>>, rest |-> <<>>]

\* eval of the items of a list display, up to its closing bracket
RECURSIVE EvalItems(_, _)
EvalItems(text, acc) ==
    IF text = <<"]", "\n">>
    THEN Loaded(acc)
    ELSE LET body == IF acc # <<>> /\ StartsWith(text, <<",">>) THEN Tail(text) ELSE text
             r == EvalItem(body)
         IN  IF (acc # <<>> /\ ~StartsWith(text, <<",">>)) \/ ~r.ok
             THEN SyntaxError
             ELSE EvalItems(r.rest, Append(acc, r.item))

\* eval(ad): the header line is a comment, the list display follows
Eval(text) ==
    LET nl == Find(text, "\n")
        body == SubSeq(text, nl + 1, Len(text))
    IN  IF text # <<>> /\ text[1] = "#" /\ nl > 0 /\ StartsWith(body, <<"[">>)
        THEN EvalItems(Tail(body), <<>>)
        ELSE SyntaxError

\* mutant of load_manifest: the IOError of the open is not caught
LoadManifest_NoCatch(file) ==
    IF file = NoFile THEN [tag |-> "IOError", items |-> <<>>] ELSE Eval(ReplaceBraces(file))

\* load_manifest: [] when the file cannot be opened (IOError)
LoadManifest(file) == IF file = NoFile THEN Loaded(<<>>) ELSE Eval(ReplaceBraces(file))

\* neither save_manifest nor load_manifest has run
ManifestIdle ==
    /\ mf_items = <<>>
    /\ mf_file = NoFile
    /\ mf_old = NoFile
    /\ mf_pc = "idle"
    /\ mf_n = 0
    /\ mf_loaded = NotLoaded

(***************************************************************************)
(* cmd_verify: the checks of one entry after another, the remedies for a   *)
(* failing file, the counters (lines 1409-1562).                           *)
(***************************************************************************)
\* bound: the entries of the game verified
MaxEntries == 2

\* file names of the model (lower case)
N_zip == <<"f", ".", "z", "i", "p">>
VerifyNames == {N_zip, N_g1}

\* itm.name.lower().endswith('.zip'), for a lower-case name
EndsWithZip(name) ==
    Len(name) >= Len(<<".", "z", "i", "p">>)
        /\ SubSeq(name, Len(name) - 3, Len(name)) = <<".", "z", "i", "p">>

\* a file of the game directory: what hashfile, os.path.getsize and
\* test_zipfile find of it
DiskFile(m, s, z) == [exists |-> TRUE, md5 |-> m, size |-> s, zipok |-> z]
NoDiskFile == [exists |-> FALSE, md5 |-> NoMd5, size |-> 0, zipok |-> FALSE]

\* the counters cmd_verify starts with (lines 1412-1418)
ZeroCounts == [item |-> 0, missing |-> 0, bad_md5 |-> 0, bad_size |-> 0, bad_zip |-> 0,
               del_file |-> 0, clean_file |-> 0]

\* lines 1506-1521: which checks of an entry mismatch on its file
BadMd5(opts, itm, file) == opts.check_md5 /\ itm.md5 # NoMd5 /\ itm.md5 # file.md5
BadSize(opts, itm, file) == opts.check_filesize /\ itm.size # NoSize /\ itm.size # file.size
BadZip(opts, itm, file) == opts.check_zips /\ EndsWithZip(itm.name) /\ ~file.zipok
\* mutant of the checks: only the md5 check sets fail
Fails_Md5Only(opts, itm, file) == BadMd5(opts, itm, file)

Fails(opts, itm, file) == BadMd5(opts, itm, file) \/ BadSize(opts, itm, file) \/ BadZip(opts, itm, file)

\* mutant of the move: it replaces a file already at the destination
MoveRaises_Never(orphan, name) == FALSE

\* line 1532, shutil.move(itm_file, dest_dir): raises shutil.Error when
\* dest_dir already holds a file of that name
MoveRaises(orphan, name) == orphan[name].exists

\* mutant of line 1522: delete_on_fail removes whatever was checked
Deletes_Always(opts, itm, file) == opts.remedy = "delete"

\* line 1522: if delete_on_fail and fail
Deletes(opts, itm, file) == opts.remedy = "delete" /\ Fails(opts, itm, file)

\* line 1551: missing_cnt + del_file_cnt + clean_file_cnt
ReportedMissing(cnt) == cnt.missing + cnt.del_file + cnt.clean_file

\* 1 for True, 0 for False
Bit(b) == IF b THEN 1 ELSE 0

VerifyIdle ==
    /\ vf_manifest = [id |-> 1, title |-> "t1", entries |-> <<>>]
    /\ vf_opts = [check_md5 |-> TRUE, check_filesize |-> TRUE, check_zips |-> TRUE,
                  remedy |-> "none"]
    /\ vf_dir = [n \in VerifyNames |-> NoDiskFile]
    /\ vf_orphan = [n \in VerifyNames |-> NoDiskFile]
    /\ vf_dir0 = vf_dir
    /\ vf_orphan0 = vf_orphan
    /\ vf_game = [id |-> 1, title |-> "t1", entries |-> <<>>]
    /\ vf_pc = "idle"
    /\ vf_i = 0
    /\ vf_cnt = ZeroCounts
    /\ vf_reload = NotLoaded

(***************************************************************************)
(* cmd_update: the product scan, the pruning of the manifest, the detail   *)
(* fetch with its merge, and the saves (lines 755-968).                    *)
(***************************************************************************)
\* bound: consecutive cmd_update runs with the same options and remote data
MaxRuns == 2

Ids == {1, 2, 3}
\* str(item.id), is_numeric_id(s) and int(s) over the ids of the model
IdStr(id) == <<"1", "2", "3">>[id]
IsNumericId(tok) == \E i \in Ids : IdStr(i) = tok
IntOf(tok) == CHOOSE i \in Ids : IdStr(i) = tok

\* the slug a product has had so far, and the slug product 1 has after a rename
SlugOf(id) == <<"t1", "t2", "t3">>[id]
NewSlug == "r1"
\* Python's order on the titles of the model
TitleOrder == <<"r1", "t1", "t2", "t3">>
TitleRank(t) == CHOOSE k \in 1..Len(TitleOrder) : TitleOrder[k] = t

\* sorted(items, key=lambda item: item.title): stable
RECURSIVE SortedByTitle(_)
SortedByTitle(items) ==
    IF items = <<>>
    THEN <<>>
    ELSE LET first == CHOOSE k \in 1..Len(items) :
                         \A j \in 1..Len(items) :
                             \/ TitleRank(items[k].title) < TitleRank(items[j].title)
                             \/ (TitleRank(items[k].title) = TitleRank(items[j].title) /\ k <= j)
         IN  <<items[first]>> \o
             SortedByTitle([j \in 1..(Len(items) - 1) |->
                               IF j < first THEN items[j] ELSE items[j + 1]])

\* [x for x in l if P(x)]
RECURSIVE Filter(_, _)
Filter(l, keep) ==
    IF l = <<>> THEN <<>>
    ELSE (IF Head(l) \in keep THEN <<Head(l)>> ELSE <<>>) \o Filter(Tail(l), keep)

Elems(l) == {l[i] : i \in 1..Len(l)}

\* what filter_downloads / filter_extras make of the gameDetails json of a
\* product: entries with their resolved name, md5 and size, created with
\* prev_verified=False
File(n, m, s, h) == [name |-> n, md5 |-> m, size |-> s, href |-> h, prev_verified |-> FALSE]
DetailsOf(id) ==
    IF id = 1
    THEN [serial |-> "k1",
          downloads |-> <<File(N_a, "m1", 1, "h1"), File(N_a, "m2", 1, "h2")>>,
          galaxyDownloads |-> <<File(N_a, "m1", 1, "h1"), File(N_g1, "m1", 1, "h3")>>,
          extras |-> <<File(N_a, "m1", 2, "h4"), File(None, NoMd5, NoSize, "h5")>>]
    ELSE [serial |-> "k1",
          downloads |-> <<File(N_a, "m1", 1, "h1")>>,
          galaxyDownloads |-> <<>>,
          extras |-> <<File(N_a, "m1", 1, "h4")>>]

\* lines 917-953: the item built from the product data and its details
BuildItem(product, installers) ==
    LET d == DetailsOf(product.id)
        dl1 == DeDuplicateList(d.downloads, EmptyDict, <<>>).out
        gx1 == DeDuplicateList(d.galaxyDownloads, EmptyDict, <<>>).out
        shared == Filter(dl1, Elems(gx1))
        dl2 == IF installers = "galaxy" THEN <<>> ELSE Filter(dl1, Elems(dl1) \ Elems(shared))
        gx2 == IF installers = "standalone" THEN <<>> ELSE Filter(gx1, Elems(gx1) \ Elems(shared))
        r1 == DeDuplicateList(dl2, EmptyDict, <<>>)
        r2 == DeDuplicateList(gx2, r1.seen, <<>>)
        r3 == DeDuplicateList(shared, r2.seen, <<>>)
        r4 == DeDuplicateList(d.extras, r3.seen, <<>>)
    IN  [id |-> product.id, title |-> product.title, has_updates |-> product.has_updates,
         serial |-> d.serial,
         downloads |-> r1.out, galaxyDownloads |-> r2.out,
         sharedDownloads |-> r3.out, extras |-> r4.out]

\* an item as an earlier run left it in the manifest
OldItem(id) ==
    [id |-> id, title |-> SlugOf(id), has_updates |-> FALSE, serial |-> "k0",
     downloads |-> <<>>, galaxyDownloads |-> <<>>, sharedDownloads |-> <<>>, extras |-> <<>>]

\* item_checkdb(search_id, gamesdb): the index of the item, 0 for None
ItemCheckDb(search_id, gamesdb) ==
    IF \E i \in 1..Len(gamesdb) : gamesdb[i].id = search_id
    THEN CHOOSE i \in 1..Len(gamesdb) :
             gamesdb[i].id = search_id /\ \A j \in 1..(i - 1) : gamesdb[j].id # search_id
    ELSE 0

\* del gamesdb[item_idx] when item_checkdb finds the id
DelById(gamesdb, id) ==
    LET idx == ItemCheckDb(id, gamesdb)
    IN  IF idx = 0 THEN gamesdb
        ELSE [j \in 1..(Len(gamesdb) - 1) |-> IF j < idx THEN gamesdb[j] ELSE gamesdb[j + 1]]

RECURSIVE DelAll(_, _)
DelAll(gamesdb, idList) ==
    IF idList = <<>> THEN gamesdb ELSE DelAll(DelById(gamesdb, Head(idList)), Tail(idList))

\* mutant of the merge: the item is appended whether or not its id is known
MergeItem_Append(gamesdb, item) == Append(gamesdb, item)

\* lines 956-962: replace the item in place, or append it
MergeItem(gamesdb, item) ==
    LET item_idx == ItemCheckDb(item.id, gamesdb)
    IN  IF item_idx # 0
        THEN [gamesdb EXCEPT ![item_idx] = item]
        ELSE Append(gamesdb, item)

\* lines 799-841 over the listing: the products kept for the detail fetch and
\* the ids/titles of the filter not found
RECURSIVE ScanProducts(_, _, _, _)
ScanProducts(products, opts, known_ids, acc) ==
    IF products = <<>>
    THEN acc
    ELSE LET p == Head(products)
             next(a) == ScanProducts(Tail(products), opts, known_ids, a)
             wanted == p.title \in acc.ids \/ IdStr(p.id) \in acc.ids
             \* ids.remove(item.title), else ids.remove(str(item.id))
             ids2 == IF p.title \in acc.ids THEN acc.ids \ {p.title}
                     ELSE acc.ids \ {IdStr(p.id)}
             taken == IF acc.ids # {}
                      THEN [acc EXCEPT !.ids = ids2, !.done = (ids2 = {})]
                      ELSE acc
             add == IF opts.updateonly THEN p.has_updates
                    ELSE IF opts.skipknown THEN p.id \notin known_ids
                    ELSE TRUE
         IN  IF opts.skipHidden /\ p.hidden THEN next(acc)
             ELSE IF acc.done THEN next(acc)
             ELSE IF p.title \in opts.skipids \/ IdStr(p.id) \in opts.skipids THEN next(acc)
             ELSE IF acc.ids # {} /\ ~wanted THEN next(acc)
             ELSE IF add THEN next([taken EXCEPT !.items = Append(@, p)])
             ELSE next(taken)

SeqOfSet(S) ==
    CHOOSE q \in [1..Cardinality(S) -> S] : \A i, j \in 1..Cardinality(S) : i < j => q[i] < q[j]

\* mutant of line 849: the run prunes although an id filter drives it
MayPruneUnlisted_IgnoresIds(opts) == ~opts.updateonly /\ ~opts.skipknown

\* line 849: if not idsOriginal and not updateonly and not skipknown
MayPruneUnlisted(opts) == opts.ids = {} /\ ~opts.updateonly /\ ~opts.skipknown

\* lines 849-858: an unfiltered run drops the known ids the scan did not keep
PruneUnlisted(gamesdb, items, opts, known_ids) ==
    LET validIDs == {items[i].id : i \in 1..Len(items)}
        invalidItems == Filter(known_ids, {id \in Ids : id \notin validIDs /\ IdStr(id) \notin opts.skipids})
    IN  DelAll(gamesdb, invalidItems)

\* lines 860-877: the ids/titles of the filter that the listing did not have
\* and the manifest has
InvalidIds(idsLeft, known_ids) == {IntOf(t) : t \in {u \in idsLeft : IsNumericId(u) /\ IntOf(u) \in Elems(known_ids)}}
InvalidTitles(idsLeft, known_titles) == idsLeft \cap Elems(known_titles)
PruneNotFound(gamesdb, idsLeft, known_ids, known_titles) ==
    LET titleIds == {gamesdb[i].id : i \in {k \in 1..Len(gamesdb) :
                         gamesdb[k].title \in InvalidTitles(idsLeft, known_titles)}}
    IN  DelAll(DelAll(gamesdb, SeqOfSet(InvalidIds(idsLeft, known_ids))), SeqOfSet(titleIds))

\* mutant of lines 964-965: the first raise ends the loop
RECURSIVE FetchAndMerge_StopsAtRaise(_, _, _)
FetchAndMerge_StopsAtRaise(gamesdb, items, opts) ==
    IF items = <<>> \/ ~Head(items).ok
    THEN gamesdb
    ELSE FetchAndMerge_StopsAtRaise(MergeItem(gamesdb, BuildItem(Head(items), opts.installers)),
                                    Tail(items), opts)

\* lines 905-965: fetch and merge item after item; a fetch that raises is
\* logged and the item left out
RECURSIVE FetchAndMerge(_, _, _)
FetchAndMerge(gamesdb, items, opts) ==
    IF items = <<>>
    THEN gamesdb
    ELSE FetchAndMerge(IF Head(items).ok
                       THEN MergeItem(gamesdb, BuildItem(Head(items), opts.installers))
                       ELSE gamesdb,
                       Tail(items), opts)

\* lines 765-892: cmd_update up to the detail fetch loop: the gamesdb the loop
\* starts with (db), the manifest file as it is then (saved) and the products
\* whose details the loop fetches, in its order (items)
BeforeFetch(disk, remote, opts) ==
    LET known_ids == [i \in 1..Len(disk) |-> disk[i].id]
        known_titles == [i \in 1..Len(disk) |-> disk[i].title]
        scan == ScanProducts(remote, opts, Elems(known_ids),
                             [items |-> <<>>, ids |-> opts.ids, done |-> FALSE])
        plain == ~opts.updateonly /\ ~opts.skipknown
        db1 == IF MayPruneUnlisted(opts)
               THEN PruneUnlisted(disk, scan.items, opts, known_ids)
               ELSE disk
        notFound == scan.ids # {} /\ plain
                    /\ (InvalidIds(scan.ids, known_ids) # {}
                        \/ InvalidTitles(scan.ids, known_titles) # {})
        db2 == IF notFound THEN PruneNotFound(db1, scan.ids, known_ids, known_titles) ELSE db1
        \* save_manifest at line 878
        saved == IF notFound THEN db2 ELSE disk
    IN  [db |-> db2, saved |-> saved, items |-> SortedByTitle(scan.items)]

\* cmd_update: the manifest file it leaves
UpdatedManifest(disk, remote, opts) ==
    LET before == BeforeFetch(disk, remote, opts)
    IN  IF Len(before.items) = 0
        THEN before.saved
        ELSE FetchAndMerge(before.db, before.items, opts)

UpdateIdle ==
    /\ up_remote = <<>>
    /\ up_opts = [ids |-> {}, skipids |-> {}, skipknown |-> FALSE, updateonly |-> FALSE,
                  skipHidden |-> FALSE, installers |-> "standalone"]
    /\ up_disk = <<>>
    /\ up_prev = <<>>
    /\ up_first = <<>>
    /\ up_runs = 0

\* a product of the listing
Product(id, kind) ==
    [id |-> id,
     title |-> IF kind = "renamed" THEN NewSlug ELSE SlugOf(id),
     has_updates |-> (kind = "updated"),
     hidden |-> (kind = "hidden"),
     \* whether the gameDetails fetch of this product succeeds
     ok |-> (kind # "broken")]

Kinds(id) ==
    IF id = 1 THEN {"absent", "plain", "updated", "hidden", "broken", "renamed"}
    ELSE IF id = 2 THEN {"absent", "plain", "hidden", "broken"}
    ELSE {"absent", "plain"}

\* the listing, sorted by title as the request asks
Listing(kindOf) ==
    SortedByTitle(Filter(<<Product(1, kindOf[1]), Product(2, kindOf[2]), Product(3, kindOf[3])>>,
                         {Product(i, kindOf[i]) : i \in {j \in Ids : kindOf[j] # "absent"}}))

\* itm.prev_verified = True on every entry of a list
MarkVerified(l) == [i \in 1..Len(l) |-> [l[i] EXCEPT !.prev_verified = TRUE]]

\* an item of the manifest file as an earlier update fetched it (the entries
\* lines 917-953 make of the details of product 1), its entries carrying the
\* prev_verified=True that cmd_verify gives an entry that passed
VerifiedItem(id) ==
    [id |-> id, title |-> SlugOf(id), has_updates |-> FALSE, serial |-> "k1",
     downloads |-> MarkVerified(<<File(N_a1, "m2", 1, "h2")>>),
     galaxyDownloads |-> MarkVerified(<<File(N_g1, "m1", 1, "h3")>>),
     sharedDownloads |-> MarkVerified(<<File(N_a, "m1", 1, "h1")>>),
     extras |-> <<>>]

\* manifests of earlier runs: distinct ids, any order; and one whose item
\* has been verified
Manifests ==
    {[i \in 1..Len(q) |-> OldItem(q[i])] :
        q \in {r \in SeqsUpTo(Ids, Cardinality(Ids)) : \A i, j \in 1..Len(r) : i # j => r[i] # r[j]}}
      \cup {<<VerifiedItem(1)>>}

\* the ids / titles a filter may name
Tokens == {"1", "t1", "t2", "r1"}
Filters ==
    {[ids |-> S, skipids |-> {}] : S \in {T \in SUBSET Tokens : Cardinality(T) <= 2}}
        \cup {[ids |-> {}, skipids |-> {t}] : t \in Tokens}
\* -skipknown and -updateonly exclude each other, as -ids and -skipids do
Modes == {[skipknown |-> FALSE, updateonly |-> FALSE], [skipknown |-> TRUE, updateonly |-> FALSE],
          [skipknown |-> FALSE, updateonly |-> TRUE]}

(***************************************************************************)
(* cmd_download: the work list, the worker pool and the scheduler's wait   *)
(* loop (lines 1207-1317).                                                 *)
(***************************************************************************)
\* bounds
NumWorkers == 2
MaxSel == 2
FileSize == 2
ChunkLen == 1

Workers == 1..NumWorkers
\* destination paths: os.path.join(item_homedir, game_item.name)
Paths == {"a", "b"}
\* game_item.name is None, for a destination path
NoName == "None"

Min(x, y) == IF x < y THEN x ELSE y
Max(x, y) == IF x > y THEN x ELSE y

\* a byte no remote file holds: prior local content, or a hole left by a seek
Stale == 0
\* the remote file's byte at 0-based offset i; bytes at different offsets differ,
\* so a byte landing at a wrong offset shows
RemoteByte(i) == i + 1
\* the body of a range response for bytes [from, to]
RemoteBytes(from, to) == [k \in 1..(to - from + 1) |-> RemoteByte(from + k - 1)]
\* the file a single pass from offset 0 into an empty file produces
WholeFile(sz) == RemoteBytes(0, sz - 1)

Absent == [exists |-> FALSE, data |-> <<>>]
StaleFile(n) == [exists |-> TRUE, data |-> [i \in 1..n |-> Stale]]

\* os.path.isfile / os.path.exists, os.path.getsize
IsFile(dir, path) == dir[path].exists
GetSize(dir, path) == Len(dir[path].data)

\* mutant of out.write: the file opened in append mode
WriteAt_Append(data, at, buf) == data \o buf

\* mutant of out.write: the chunk lands one byte further
WriteAt_Shifted(data, at, buf) ==
    [i \in 1..Max(Len(data), at + 1 + Len(buf)) |->
        IF i > at + 1 /\ i <= at + 1 + Len(buf) THEN buf[i - at - 1]
        ELSE IF i <= Len(data) THEN data[i] ELSE Stale]

\* out.write(buf) at file offset at (0-based); a write past the end leaves a hole
WriteAt(data, at, buf) ==
    [i \in 1..Max(Len(data), at + Len(buf)) |->
        IF i > at /\ i <= at + Len(buf) THEN buf[i - at]
        ELSE IF i <= Len(data) THEN data[i] ELSE Stale]

\* mutant of f.truncate: the file keeps its length
Truncate_Noop(data, sz) == data

\* f.truncate(sz) on a file longer than sz
Truncate(data, sz) == SubSeq(data, 1, sz)

\* open_notrunc: O_WRONLY | O_CREAT, no O_TRUNC
OpenNoTrunc(f) == [exists |-> TRUE, data |-> f.data]

WorkItem(sz, start, end, path) == [sz |-> sz, start |-> start, end |-> end, path |-> path]
NoItem == WorkItem(0, 0, 0, NoName)

\* mutant of work_dict: a list, one element per selected entry
DictPut_Append(d, item) == Append(d, item)

\* work_dict[dest_file] = ...: a dict keeps one value per key, at the place the
\* key was first inserted
DictPut(d, item) ==
    IF \E i \in 1..Len(d) : d[i].path = item.path
    THEN [i \in 1..Len(d) |-> IF d[i].path = item.path THEN item ELSE d[i]]
    ELSE Append(d, item)

\* mutant of the work item's range: end = size
WorkRange_OffByOne(size) == [start |-> 0, end |-> size]

\* the byte range a work item asks for: (0, size - 1)
WorkRange(size) == [start |-> 0, end |-> size - 1]

\* mutant of lines 1212-1220: a file of the right size is queued too
ItemVerdict_NoPass(game_item, dir) ==
    IF game_item.name = NoName
    THEN "skip"
    ELSE IF IsFile(dir, game_item.name) /\ game_item.size = NoSize
         THEN "skip"
         ELSE "queue"

\* lines 1208-1220 for one entry: "skip" (continue), or "queue"
ItemVerdict(game_item, dir) ==
    IF game_item.name = NoName
    THEN "skip"
    ELSE IF IsFile(dir, game_item.name)
         THEN IF game_item.size = NoSize
              THEN "skip"
              ELSE IF game_item.size # GetSize(dir, game_item.name)
                   THEN "queue"
                   ELSE "skip"
         ELSE "queue"

\* lines 1207-1225 over the selected entries: the work_dict, or a crash when
\* game_item.size - 1 is evaluated with size None (TypeError)
RECURSIVE Populate(_, _, _)
Populate(sel, dir, acc) ==
    IF sel = <<>> \/ acc.crashed
    THEN acc
    ELSE LET game_item == Head(sel)
             dest_file == game_item.name
         IN  IF ItemVerdict(game_item, dir) = "skip"
             THEN Populate(Tail(sel), dir, acc)
             ELSE IF game_item.size = NoSize
             THEN [acc EXCEPT !.crashed = TRUE]
             ELSE Populate(Tail(sel), dir,
                     [acc EXCEPT !.dict = DictPut(acc.dict,
                         WorkItem(game_item.size, WorkRange(game_item.size).start,
                                  WorkRange(game_item.size).end, dest_file))])

WorkDict(sel, dir) == Populate(sel, dir, [dict |-> <<>>, crashed |-> FALSE])

PathsOf(q) == {q[i].path : i \in 1..Len(q)}

\* mutant of line 1245: the chunk is not taken off the counter
TakeOff_Noop(left, sz) == left

\* line 1245: sizes[path] -= sz
TakeOff(left, sz) == left - sz

\* rates = {}
NoRates == [p \in {} |-> <<>>]

\* mutant of progress(): the samples are kept
ClearRates_Keep(r) == r

\* line 1298: rates.clear()
ClearRates(r) == NoRates

\* line 1245: rates.setdefault(path, []).append((tid, (sz, dt)))
AddSample(r, path, tid, sz) ==
    [p \in DOMAIN r \cup {path} |->
        IF p = path
        THEN (IF p \in DOMAIN r THEN r[p] ELSE <<>>) \o <<[tid |-> tid, sz |-> sz]>>
        ELSE r[p]]

NoHist == [queued |-> {}, pulled |-> [p \in Paths |-> 0], reqs |-> {},
           nreq |-> [p \in Paths |-> 0], mismatch |-> {},
           since |-> [p \in Paths |-> 0], recv |-> [p \in Paths |-> 0],
           done |-> {}, failed |-> {}, truncated |-> {}]

\* cmd_download not running
DownloadIdle ==
    /\ dl_sel = <<>>
    /\ fs = [p \in Paths |-> Absent]
    /\ fs0 = [p \in Paths |-> Absent]
    /\ main = "idle"
    /\ work = <<>>
    /\ sizes = [p \in {} |-> 0]
    /\ rates = NoRates
    /\ pc = [w \in Workers |-> "unborn"]
    /\ cur = [w \in Workers |-> NoItem]
    /\ pos = [w \in Workers |-> 0]
    /\ got = [w \in Workers |-> 0]
    /\ hist = NoHist

\* an entry fetch_file_info could not resolve has neither name nor size
SelPool ==
    {[name |-> n, size |-> s] : n \in Paths, s \in {FileSize, NoSize}}
        \cup {[name |-> NoName, size |-> NoSize]}

\* the entries of one item that resolve to the same name have the same size
\* (what deDuplicateList leaves in a manifest)
SelOk(sel) ==
    \A i, j \in 1..Len(sel) :
        (sel[i].name # NoName /\ sel[i].name = sel[j].name) => sel[i].size = sel[j].size

\* a destination file as a run finds it: absent, shorter than, as long as or
\* longer than the expected size
FileStates == {Absent} \cup {StaleFile(n) : n \in {1, FileSize, FileSize + 1}}

InitDownload ==
    /\ DedupIdle
    /\ UpdateIdle
    /\ ManifestIdle
    /\ VerifyIdle
    /\ RequestIdle
    /\ dl_sel \in {sel \in SeqsUpTo(SelPool, MaxSel) : SelOk(sel)}
    /\ fs \in [Paths -> FileStates]
    /\ fs0 = fs
    /\ main = "start"
    /\ work = <<>>
    /\ sizes = [p \in {} |-> 0]
    /\ rates = NoRates
    /\ pc = [w \in Workers |-> "unborn"]
    /\ cur = [w \in Workers |-> NoItem]
    /\ pos = [w \in Workers |-> 0]
    /\ got = [w \in Workers |-> 0]
    /\ hist = NoHist

\* lines 1207-1228 and 1301-1307: fill the queue, start the pool
BuildWork ==
    /\ main = "start"
    /\ LET wd == WorkDict(dl_sel, fs)
       IN  IF wd.crashed
           THEN /\ main' = "crashed"
                /\ UNCHANGED <<work, sizes, rates, pc, hist>>
           ELSE /\ main' = "waiting"
                /\ work' = wd.dict
                /\ sizes' = [p \in PathsOf(wd.dict) |->
                                (CHOOSE i \in {wd.dict[k] : k \in 1..Len(wd.dict)} : i.path = p).sz]
                /\ rates' = NoRates
                /\ pc' = [w \in Workers |-> "loop"]
                /\ hist' = [hist EXCEPT !.queued = PathsOf(wd.dict)]
    /\ UNCHANGED <<nonDlVars, dl_sel, fs, fs0, cur, pos, got>>

\* mutant of the exit: the threads outlive it
ProcessRunning_Always == TRUE

\* the interpreter is still running its threads: daemon threads (line 1304) do
\* not run once the process has exited (lines 1732-1734)
ProcessRunning == main # "exited"

\* while not work.empty():
WorkerLoop(w) ==
    /\ ProcessRunning
    /\ pc[w] = "loop"
    /\ pc' = [pc EXCEPT ![w] = IF work = <<>> THEN "exited" ELSE "get"]
    /\ UNCHANGED <<nonDlVars, dl_sel, fs, fs0, main, work, sizes, rates, cur, pos, got, hist>>

\* the item work.get() hands out, and the queue it leaves
QueueGet(q) == [item |-> Head(q), rest |-> Tail(q)]

\* work.get(): blocks while the queue is empty
WorkerGet(w) ==
    /\ ProcessRunning
    /\ pc[w] = "get"
    /\ work # <<>>
    /\ cur' = [cur EXCEPT ![w] = QueueGet(work).item]
    /\ work' = QueueGet(work).rest
    /\ pc' = [pc EXCEPT ![w] = "prep"]
    /\ hist' = [hist EXCEPT !.pulled[QueueGet(work).item.path] = @ + 1]
    /\ UNCHANGED <<nonDlVars, dl_sel, fs, fs0, main, sizes, rates, pos, got>>

\* lines 1254-1262: under the lock, make the directory and truncate a file that
\* is larger than the expected size; then open_notrunc(path) and out.seek(start).
\* An IOError of open_notrunc is caught at line 1278.
WorkerOpen(w) ==
    /\ ProcessRunning
    /\ pc[w] = "prep"
    /\ LET path == cur[w].path
           sz == cur[w].sz
           big == fs[path].exists /\ GetSize(fs, path) > sz
           cut == IF big THEN [exists |-> TRUE, data |-> Truncate(fs[path].data, sz)]
                         ELSE fs[path]
           cutHist == IF big THEN [hist EXCEPT !.truncated = @ \cup {path}] ELSE hist
       IN  \/ /\ fs' = [fs EXCEPT ![path] = OpenNoTrunc(cut)]
              /\ pos' = [pos EXCEPT ![w] = cur[w].start]
              /\ pc' = [pc EXCEPT ![w] = "request"]
              /\ hist' = cutHist
           \/ /\ fs' = [fs EXCEPT ![path] = cut]
              /\ pc' = [pc EXCEPT ![w] = "loop"]
              /\ hist' = [cutHist EXCEPT !.failed = @ \cup {path}]
              /\ UNCHANGED pos
    /\ UNCHANGED <<nonDlVars, dl_sel, fs0, main, work, sizes, rates, cur, got>>

\* what request() and the Content-Range check can come to:
\*   "ok"        the confirmed range is the requested one
\*   "mismatch"  another Content-Range: logged, the item is skipped
\*   "http"      HTTPError (caught at line 1276)
\*   "url"       URLError / socket.error after the retries (IOError, line 1278)
\*   "uncaught"  BadStatusLine after the retries, or no Content-Range header:
\*               neither an HTTPError nor an IOError
RequestOutcomes == {"ok", "mismatch", "http", "url", "uncaught"}

\* mutant of line 1267: the Content-Range is not compared
AfterRequest_NoRangeCheck(outcome) ==
    CASE outcome \in {"ok", "mismatch"} -> "stream"
      [] outcome = "uncaught" -> "dead"
      [] OTHER -> "loop"

\* where worker() goes after an outcome of the request
AfterRequest(outcome) ==
    CASE outcome = "ok" -> "stream"
      [] outcome = "uncaught" -> "dead"
      [] OTHER -> "loop"

\* lines 1263-1273: the range request
WorkerRequest(w) ==
    /\ ProcessRunning
    /\ pc[w] = "request"
    /\ \E outcome \in RequestOutcomes :
          /\ pc' = [pc EXCEPT ![w] = AfterRequest(outcome)]
          /\ hist' = [hist EXCEPT
                 !.reqs = @ \cup {[path |-> cur[w].path, start |-> cur[w].start,
                                  end |-> cur[w].end, seek |-> pos[w],
                                  len |-> GetSize(fs, cur[w].path)]},
                 !.nreq[cur[w].path] = @ + 1,
                 !.mismatch = IF outcome = "mismatch" THEN @ \cup {cur[w].path} ELSE @,
                 !.failed = IF outcome = "ok" THEN @ ELSE @ \cup {cur[w].path}]
    /\ got' = [got EXCEPT ![w] = 0]
    /\ UNCHANGED <<nonDlVars, dl_sel, fs, fs0, main, work, sizes, rates, cur, pos>>

\* mutant of line 1275: the assert is not evaluated
AfterStream_NoAssert(tell, end) == "loop"

\* where worker() goes when ioloop returns: assert out.tell() == end + 1
AfterStream(tell, end) == IF tell = end + 1 THEN "loop" ELSE "dead"

\* one turn of ioloop: page.read(4*1024), out.write(buf), the shared counters
WorkerRead(w) ==
    /\ ProcessRunning
    /\ pc[w] = "stream"
    /\ LET path == cur[w].path
           left == (cur[w].end - cur[w].start + 1) - got[w]
           n == Min(ChunkLen, left)
           buf == RemoteBytes(cur[w].start + got[w], cur[w].start + got[w] + n - 1)
       IN  \/ \* a chunk arrives
              /\ left > 0
              /\ fs' = [fs EXCEPT ![path] = [exists |-> TRUE, data |-> WriteAt(@.data, pos[w], buf)]]
              /\ pos' = [pos EXCEPT ![w] = @ + n]
              /\ got' = [got EXCEPT ![w] = @ + n]
              /\ sizes' = [sizes EXCEPT ![path] = TakeOff(@, n)]
              /\ rates' = AddSample(rates, path, w, n)
              /\ hist' = [hist EXCEPT !.since[path] = @ + n, !.recv[path] = @ + n]
              /\ UNCHANGED pc
           \/ \* the stream ends (after the last byte, or before it): sz = 0
              /\ pc' = [pc EXCEPT ![w] = AfterStream(pos[w], cur[w].end)]
              /\ hist' = IF AfterStream(pos[w], cur[w].end) = "loop"
                         THEN [hist EXCEPT !.done = @ \cup {path}]
                         ELSE [hist EXCEPT !.failed = @ \cup {path}]
              /\ UNCHANGED <<fs, pos, got, sizes, rates>>
           \/ \* page.read or out.write raises IOError (caught at line 1278)
              /\ pc' = [pc EXCEPT ![w] = "loop"]
              /\ hist' = [hist EXCEPT !.failed = @ \cup {path}]
              /\ UNCHANGED <<fs, pos, got, sizes, rates>>
    /\ UNCHANGED <<nonDlVars, dl_sel, fs0, main, work, cur>>

\* the bytes of the samples rates holds for a path: what the next report sums
\* for its bandwidth
RECURSIVE SumSz(_)
SumSz(samples) == IF samples = <<>> THEN 0 ELSE Head(samples).sz + SumSz(Tail(samples))
SampleBytes(p) == IF p \in DOMAIN rates THEN SumSz(rates[p]) ELSE 0

\* t.is_alive()
Alive(w) == pc[w] \notin {"exited", "dead", "unborn"}

\* lines 1285-1298, progress(): under the lock, one line per path of rates
\* with the bytes and the time of its samples, then rates.clear()
Progress ==
    /\ rates' = ClearRates(rates)
    /\ hist' = [hist EXCEPT !.since = [p \in Paths |-> 0]]
    /\ UNCHANGED sizes

\* lines 1309-1311: progress(); time.sleep(1) while a worker is alive
MainPoll ==
    /\ main = "waiting"
    /\ \E w \in Workers : Alive(w)
    /\ Progress
    /\ UNCHANGED <<nonDlVars, dl_sel, fs, fs0, main, work, pc, cur, pos, got>>

\* the wait loop ends: no worker is alive
MainReturn ==
    /\ main = "waiting"
    /\ \A w \in Workers : ~Alive(w)
    /\ main' = "returned"
    /\ UNCHANGED <<nonDlVars, dl_sel, fs, fs0, work, sizes, rates, pc, cur, pos, got, hist>>

\* lines 1308-1312: KeyboardInterrupt raised in the wait loop (progress() or
\* time.sleep(1)) of the main thread and re-raised
MainInterrupt ==
    /\ main = "waiting"
    /\ main' = "interrupted"
    /\ UNCHANGED <<nonDlVars, dl_sel, fs, fs0, work, sizes, rates, pc, cur, pos, got, hist>>

\* lines 1732-1734: except KeyboardInterrupt: info('exiting...'); sys.exit(1).
\* The workers are daemon threads: the exit does not wait for them.
MainExit ==
    /\ main = "interrupted"
    /\ main' = "exited"
    /\ UNCHANGED <<nonDlVars, dl_sel, fs, fs0, work, sizes, rates, pc, cur, pos, got, hist>>

NextDownload ==
    \/ BuildWork
    \/ \E w \in Workers : WorkerLoop(w)
    \/ \E w \in Workers : WorkerGet(w)
    \/ \E w \in Workers : WorkerOpen(w)
    \/ \E w \in Workers : WorkerRequest(w)
    \/ \E w \in Workers : WorkerRead(w)
    \/ MainPoll
    \/ MainReturn

SpecDownload == InitDownload /\ [][NextDownload]_vars

\* cmd_download into an empty directory, with the user's interrupt
InitFresh ==
    /\ InitDownload
    /\ fs = [p \in Paths |-> Absent]

NextInterrupt == NextDownload \/ MainInterrupt \/ MainExit

SpecInterrupt == InitFresh /\ [][NextInterrupt]_vars

(***************************************************************************)
(* ioloop and progress() statement by statement, with the lock they share  *)
(* (lines 1237-1246, 1285-1298, 1301).  A worker holds the lock while its   *)
(* pc is "dec", "sample", "dec0" or "sample0", the main thread while main   *)
(* is "reporting".  The lock taken around the log lines of worker() guards *)
(* neither sizes nor rates and is left out.                                *)
(***************************************************************************)
LockHolders ==
    {w \in Workers : pc[w] \in {"dec", "sample", "dec0", "sample0"}}
        \cup (IF main = "reporting" THEN {0} ELSE {})

\* mutant of the lock: acquire never waits
LockFree_Always == TRUE

\* with lock: the lock can be acquired
LockFree == LockHolders = {}

\* lines 1255-1262 of worker(): the directory and the truncation are done
\* under the lock
LockedOpen(w) == LockFree /\ WorkerOpen(w)

\* lines 1240-1243: buf = page.read(4*1024); out.write(buf); sz = len(buf)
IoRead(w) ==
    /\ ProcessRunning
    /\ pc[w] = "stream"
    /\ LET path == cur[w].path
           left == (cur[w].end - cur[w].start + 1) - got[w]
           n == Min(ChunkLen, left)
           buf == RemoteBytes(cur[w].start + got[w], cur[w].start + got[w] + n - 1)
       IN  \/ \* a chunk arrives
              /\ left > 0
              /\ fs' = [fs EXCEPT ![path] = [exists |-> TRUE, data |-> WriteAt(@.data, pos[w], buf)]]
              /\ pos' = [pos EXCEPT ![w] = @ + n]
              /\ got' = [got EXCEPT ![w] = @ + n]
              /\ pc' = [pc EXCEPT ![w] = "lock"]
              /\ UNCHANGED hist
           \/ \* the stream ends (after the last byte, or before it): buf = b''
              /\ pc' = [pc EXCEPT ![w] = "lock0"]
              /\ UNCHANGED <<fs, pos, got, hist>>
           \/ \* page.read or out.write raises IOError (caught at line 1278)
              /\ pc' = [pc EXCEPT ![w] = "loop"]
              /\ hist' = [hist EXCEPT !.failed = @ \cup {path}]
              /\ UNCHANGED <<fs, pos, got>>
    /\ UNCHANGED <<nonDlVars, dl_sel, fs0, main, work, sizes, rates, cur>>

\* lines 1244-1245: with lock: sizes[path] -= sz.  sz is what was written and
\* is not yet taken off sizes[path]; 0 after the empty read
IoDec(w) ==
    /\ ProcessRunning
    /\ pc[w] \in {"lock", "lock0"}
    /\ LockFree
    /\ LET path == cur[w].path
           sz == got[w] - hist.recv[path]
       IN  /\ sizes' = [sizes EXCEPT ![path] = TakeOff(@, sz)]
           /\ hist' = [hist EXCEPT !.since[path] = @ + sz, !.recv[path] = @ + sz]
    /\ pc' = [pc EXCEPT ![w] = IF pc[w] = "lock" THEN "sample" ELSE "sample0"]
    /\ UNCHANGED <<nonDlVars, dl_sel, fs, fs0, main, work, rates, cur, pos, got>>

\* line 1246: rates.setdefault(path, []).append((tid, (sz, dt))), the lock is
\* released; while sz: goes round, or ioloop returns to the assert of line 1275
IoSample(w) ==
    /\ ProcessRunning
    /\ pc[w] \in {"sample", "sample0"}
    /\ LET path == cur[w].path
           sz == hist.since[path] - SampleBytes(path)
           after == AfterStream(pos[w], cur[w].end)
       IN  /\ rates' = AddSample(rates, path, w, sz)
           /\ pc' = [pc EXCEPT ![w] = IF pc[w] = "sample" THEN "stream" ELSE after]
           /\ hist' = IF pc[w] = "sample" THEN hist
                      ELSE IF after = "loop" THEN [hist EXCEPT !.done = @ \cup {path}]
                      ELSE [hist EXCEPT !.failed = @ \cup {path}]
    /\ UNCHANGED <<nonDlVars, dl_sel, fs, fs0, main, work, sizes, cur, pos, got>>

\* lines 1286-1287 of progress(): with lock: left = sum(sizes.values())
ReportLock ==
    /\ main = "waiting"
    /\ \E w \in Workers : Alive(w)
    /\ LockFree
    /\ main' = "reporting"
    /\ UNCHANGED <<nonDlVars, dl_sel, fs, fs0, work, sizes, rates, pc, cur, pos, got, hist>>

\* lines 1288-1298: the lines of the report, rates.clear(), the lock is released
ReportClear ==
    /\ main = "reporting"
    /\ Progress
    /\ main' = "waiting"
    /\ UNCHANGED <<nonDlVars, dl_sel, fs, fs0, work, pc, cur, pos, got>>

\* one entry per destination path, none of unknown size
InitLock ==
    /\ InitFresh
    /\ Len(dl_sel) = Cardinality(Paths)
    /\ \A i \in 1..Len(dl_sel) : dl_sel[i].name # NoName /\ dl_sel[i].size # NoSize
    /\ \A i, j \in 1..Len(dl_sel) : i # j => dl_sel[i].name # dl_sel[j].name

NextLock ==
    \/ BuildWork
    \/ \E w \in Workers : WorkerLoop(w)
    \/ \E w \in Workers : WorkerGet(w)
    \/ \E w \in Workers : LockedOpen(w)
    \/ \E w \in Workers : WorkerRequest(w)
    \/ \E w \in Workers : IoRead(w)
    \/ \E w \in Workers : IoDec(w)
    \/ \E w \in Workers : IoSample(w)
    \/ ReportLock
    \/ ReportClear
    \/ MainReturn

SpecLock == InitLock /\ [][NextLock]_vars

(***************************************************************************)
(* Claims about cmd_download                                               *)
(***************************************************************************)
\* the size the manifest expects of the file at path p
ExpectedSize(p) ==
    (CHOOSE i \in {dl_sel[k] : k \in 1..Len(dl_sel)} : i.name = p).size
PriorLen(p) == Len(fs0[p].data)
InFlight(w) == pc[w] \in {"prep", "request", "stream"}
NoFailure == hist.failed = {} /\ \A w \in Workers : pc[w] # "dead"

\* C2: with every transfer finishing, no worker sits in work.get() on the
\* drained queue while the scheduler waits for it (such a worker never leaves:
\* nothing is put on the queue once the pool runs, so cmd_download never returns).
C2_NoWorkerBlocked ==
    (main = "waiting" /\ NoFailure) =>
        \A w \in Workers : ~(pc[w] = "get" /\ work = <<>>)

C4_CompleteFileCorrect ==
    \A p \in hist.done :
        fs[p].exists /\ fs[p].data = WholeFile(ExpectedSize(p))

C4_Witness ==
    \E p, q \in hist.done :
        /\ fs0[p].exists /\ PriorLen(p) < ExpectedSize(p)
        /\ fs0[q].exists /\ PriorLen(q) > ExpectedSize(q)

\* C5: a destination file found larger than the expected size has exactly the
\* expected size when the range request for it is issued.
C5_TruncatedBeforeRequest ==
    \A r \in hist.reqs :
        (fs0[r.path].exists /\ PriorLen(r.path) > ExpectedSize(r.path))
            => (r.len = ExpectedSize(r.path) /\ r.path \in hist.truncated)

C5_Witness ==
    \E r \in hist.reqs : fs0[r.path].exists /\ PriorLen(r.path) > ExpectedSize(r.path)

\* C6: an entry whose destination file exists with exactly the expected size is
\* never queued, no worker holds it, no request is made for it and its file is
\* left as it was.
C6_SkipExactSize ==
    \A k \in 1..Len(dl_sel) :
        LET e == dl_sel[k]
        IN  (e.name # NoName /\ e.size # NoSize /\ fs0[e.name].exists
                /\ PriorLen(e.name) = e.size)
            => /\ e.name \notin hist.queued
               /\ e.name \notin PathsOf(work)
               /\ \A w \in Workers : cur[w].path # e.name
               /\ \A r \in hist.reqs : r.path # e.name
               /\ fs[e.name] = fs0[e.name]

\* an exact-size entry is skipped while another entry of the run is downloaded
C6_Witness ==
    /\ \E k \in 1..Len(dl_sel) :
          LET e == dl_sel[k]
          IN  e.name # NoName /\ e.size # NoSize /\ fs0[e.name].exists
                 /\ PriorLen(e.name) = e.size
    /\ hist.done # {}
    /\ main = "returned"

\* C7: an item's failure never ends the worker that met it (the worker goes on
\* to the next item), and when cmd_download returns every queued item has been
\* pulled by a worker.
C7_FailureIsolated ==
    /\ \A w \in Workers : pc[w] # "dead"
    /\ main = "returned" => (work = <<>> /\ \A p \in hist.queued : hist.pulled[p] = 1)

\* the destination file as the worker's open leaves it: the prior bytes, cut to
\* the expected size
OpenedData(p) ==
    IF PriorLen(p) > ExpectedSize(p) THEN Truncate(fs0[p].data, ExpectedSize(p)) ELSE fs0[p].data

\* C17: an item whose confirmed Content-Range is not the requested one is
\* given up: no body byte reaches its file, its remaining-bytes counter is
\* what it was, it is requested once and never queued or held again.
C17_MismatchAborts ==
    \A p \in hist.mismatch :
        /\ fs[p].data = OpenedData(p)
        /\ sizes[p] = ExpectedSize(p)
        /\ hist.nreq[p] = 1
        /\ hist.pulled[p] = 1
        /\ p \notin PathsOf(work)
        /\ \A w \in Workers : InFlight(w) => cur[w].path # p

\* a mismatch on a file that had bytes, in a run that came to its end with
\* another item downloaded
C17_Witness ==
    /\ \E p \in hist.mismatch : PriorLen(p) > 0
    /\ hist.done # {}
    /\ main = "returned"

C8_OneWorkerPerPath ==
    /\ \A i, j \in 1..Len(work) : i # j => work[i].path # work[j].path
    /\ \A p \in hist.queued :
          hist.pulled[p] + (IF p \in PathsOf(work) THEN 1 ELSE 0) = 1
    /\ \A p \in Paths \ hist.queued : hist.pulled[p] = 0
    /\ \A v, w \in Workers :
          (v # w /\ InFlight(v) /\ InFlight(w)) => cur[v].path # cur[w].path

C8_Witness ==
    \E v, w \in Workers :
        v # w /\ pc[v] = "stream" /\ pc[w] = "stream" /\ got[v] > 0 /\ got[w] > 0

\* C30: the samples held for a path are those of the chunks received since
\* the last report, and a report empties the sample map and changes no
\* remaining-bytes entry.
C30_ReportClearsSamples ==
    /\ [](\A p \in Paths : SampleBytes(p) = hist.since[p])
    /\ [][(\E p \in Paths : hist'.since[p] < hist.since[p])
              => (rates' = NoRates /\ sizes' = sizes)]_vars

\* a transfer with chunks before and after a report: the samples held cover
\* the later ones only
C30_Witness ==
    \E w \in Workers :
        /\ pc[w] = "stream"
        /\ 0 < SampleBytes(cur[w].path)
        /\ SampleBytes(cur[w].path) < got[w]
        /\ sizes[cur[w].path] = cur[w].sz - got[w]

WantedPaths ==
    {e.name : e \in {f \in Elems(dl_sel) :
                        /\ f.name # NoName
                        /\ f.size # NoSize
                        /\ (~IsFile(fs0, f.name) \/ GetSize(fs0, f.name) # f.size)}}

\* C33: once cmd_download is past the building of its work list, the paths
\* put on the queue are exactly those of the selected entries with a resolved
\* name and a known size whose file is absent or of another length, each once.
C33_QueueExact ==
    /\ main # "start" => hist.queued = WantedPaths
    /\ \A i, j \in 1..Len(work) : i # j => work[i].path # work[j].path
\* the status of the entry with destination path p: PENDING until a worker
\* pulls it, IN_FLIGHT while a worker holds it, then DONE or FAILED; SKIPPED
\* when the building of the work list left it out
Status(p) ==
    IF main = "start" THEN "PENDING"
    ELSE IF p \notin hist.queued THEN "SKIPPED"
    ELSE IF p \in hist.done THEN "DONE"
    ELSE IF p \in hist.failed THEN "FAILED"
    ELSE IF \E w \in Workers : InFlight(w) /\ cur[w].path = p THEN "IN_FLIGHT"
    ELSE "PENDING"
Settled(p) == Status(p) \in {"DONE", "FAILED", "SKIPPED"}

\* C34: the status of an entry only moves PENDING -> IN_FLIGHT -> DONE or
\* FAILED, or from PENDING to SKIPPED at the building of the work list; a
\* DONE, FAILED or SKIPPED entry keeps its status, is not on the queue, is
\* not pulled or requested again and its file is not written again; a DONE
\* entry has received as many bytes as its expected size.
C34_StatusForward ==
    /\ [](\A p \in Paths :
            /\ Settled(p) =>
                  (p \notin PathsOf(work) /\ \A w \in Workers : InFlight(w) => cur[w].path # p)
            /\ Status(p) = "PENDING" => hist.pulled[p] = 0
            /\ Status(p) = "DONE" => hist.recv[p] = ExpectedSize(p)
            /\ hist.pulled[p] <= 1)
    /\ [][\A p \in Paths :
            /\ Status(p) = "PENDING" => Status(p)' \in {"PENDING", "IN_FLIGHT", "SKIPPED"}
            /\ Status(p) = "IN_FLIGHT" => Status(p)' \in {"IN_FLIGHT", "DONE", "FAILED"}
            /\ Settled(p) =>
                  /\ Status(p)' = Status(p)
                  /\ hist'.pulled[p] = hist.pulled[p]
                  /\ hist'.nreq[p] = hist.nreq[p]
                  /\ fs'[p] = fs[p]]_vars

\* a run that ended with one entry DONE and another FAILED after some of its
\* bytes had arrived
C34_Witness ==
    /\ main = "returned"
    /\ \E p, q \in Paths :
          /\ Status(p) = "DONE"
          /\ Status(q) = "FAILED"
          /\ 0 < hist.recv[q] /\ hist.recv[q] < ExpectedSize(q)
\* the bytes of the remote file that this run has put into the file at path p
Written(p) ==
    Cardinality({i \in 1..Len(fs[p].data) :
                    fs[p].data[i] = RemoteByte(i - 1) /\ (i > Len(fs0[p].data) \/ fs0[p].data[i] = Stale)})

\* C40: the remaining-bytes counter of a queued path is never negative, is
\* the expected size less the bytes this run has received and written for
\* the path, is 0 once the item is DONE, and is not touched again once the
\* item has failed: an item that failed after some of its bytes keeps the
\* positive rest.
C40_RemainingBytes ==
    /\ [](/\ DOMAIN sizes = hist.queued
          /\ \A p \in DOMAIN sizes :
                /\ sizes[p] >= 0
                /\ sizes[p] = ExpectedSize(p) - hist.recv[p]
                /\ hist.recv[p] = Written(p)
                /\ p \in hist.done => sizes[p] = 0
                /\ (p \in hist.failed /\ hist.recv[p] < ExpectedSize(p)) => sizes[p] > 0)
    /\ [][\A p \in hist.failed \cup hist.done : sizes'[p] = sizes[p]]_vars

\* one item is DONE with nothing remaining, another failed mid-stream and
\* keeps its rest
C40_Witness ==
    /\ main = "returned"
    /\ \E p, q \in DOMAIN sizes :
          /\ p \in hist.done /\ sizes[p] = 0
          /\ q \in hist.failed /\ 0 < sizes[q] /\ sizes[q] < ExpectedSize(q)

\* C35: the lock has one holder at a time, and while progress() holds it the
\* samples of every path add up to the bytes taken off its remaining-bytes
\* counter since the last report: no decrement without its sample, no sample
\* without its decrement.
C35_ReportSeesBoth ==
    /\ Cardinality(LockHolders) <= 1
    /\ main = "reporting" => \A p \in Paths : SampleBytes(p) = hist.since[p]

\* progress() holds the lock while a worker, a chunk written, waits for it,
\* and another path has samples to report
C35_Witness ==
    /\ main = "reporting"
    /\ \E w \in Workers : pc[w] = "lock"
    /\ \E p \in Paths : SampleBytes(p) > 0

(***************************************************************************)
(* cmd_update run after run                                                *)
(***************************************************************************)
InitUpdate ==
    /\ DedupIdle
    /\ DownloadIdle
    /\ ManifestIdle
    /\ VerifyIdle
    /\ RequestIdle
    /\ up_remote \in {Listing(k) : k \in {f \in [Ids -> UNION {Kinds(i) : i \in Ids}] :
                                              \A i \in Ids : f[i] \in Kinds(i)}}
    /\ up_opts \in {[ids |-> f.ids, skipids |-> f.skipids, skipknown |-> m.skipknown,
                     updateonly |-> m.updateonly, skipHidden |-> h, installers |-> "both"] :
                        f \in Filters, m \in Modes, h \in BOOLEAN}
    /\ up_disk \in Manifests
    /\ up_prev = up_disk
    /\ up_first = up_disk
    /\ up_runs = 0

\* one run of cmd_update with the options and the remote data of this behaviour
CmdUpdate ==
    /\ up_runs < MaxRuns
    /\ up_prev' = up_disk
    /\ up_disk' = UpdatedManifest(up_disk, up_remote, up_opts)
    /\ up_runs' = up_runs + 1
    /\ UNCHANGED <<nonUpVars, up_remote, up_opts, up_first>>

NextUpdate == CmdUpdate

SpecUpdate == InitUpdate /\ [][NextUpdate]_vars

(***************************************************************************)
(* Claims about cmd_update                                                 *)
(***************************************************************************)
IdsIn(db) == {db[i].id : i \in 1..Len(db)}
ItemOf(db, id) == db[ItemCheckDb(id, db)]

\* C9: a second run with the same remote data and the same options leaves the
\* manifest the first run left.
C9_UpdateIdempotent ==
    up_runs >= 2 => up_disk = up_prev

\* the first run pruned an item, replaced one in place and appended one
C9_Witness ==
    /\ up_runs = 2
    /\ \E id \in IdsIn(up_first) : id \notin IdsIn(up_disk)
    /\ \E id \in IdsIn(up_first) \cap IdsIn(up_disk) : ItemOf(up_disk, id) # ItemOf(up_first, id)
    /\ \E id \in IdsIn(up_disk) : id \notin IdsIn(up_first)

\* the items of db that satisfy keep, in their order
Surviving(db, keepIds) ==
    LET RECURSIVE Sub(_)
        Sub(l) == IF l = <<>> THEN <<>>
                  ELSE (IF Head(l).id \in keepIds THEN <<Head(l)>> ELSE <<>>) \o Sub(Tail(l))
    IN  Sub(db)

\* the items of the manifest that the filter names by id or by title
NamedByFilter(db, ids) ==
    {db[i].id : i \in {k \in 1..Len(db) : IdStr(db[k].id) \in ids \/ db[k].title \in ids}}
\* the ids of the listed products whose present title the filter names
ListedUnder(remote, ids) ==
    {remote[i].id : i \in {k \in 1..Len(remote) : remote[k].title \in ids}}

\* C10 as claimed: in a run with a non-empty id/title filter every manifest
\* item whose id and title the filter does not name stays, unchanged and in
\* its order among the items that stay.
C10_FilterKeepsOthers ==
    (up_runs >= 1 /\ up_opts.ids # {}) =>
        LET others == IdsIn(up_prev) \ NamedByFilter(up_prev, up_opts.ids)
        IN  Surviving(up_disk, others) = Surviving(up_prev, others)

\* C10 amended: the same for every manifest item whose id and title the filter
\* does not name and whose id is not that of a listed product whose present
\* title (its slug after a rename) the filter names.
C10_FilterKeepsUnrelated ==
    (up_runs >= 1 /\ up_opts.ids # {}) =>
        LET others == (IdsIn(up_prev) \ NamedByFilter(up_prev, up_opts.ids))
                          \ ListedUnder(up_remote, up_opts.ids)
        IN  Surviving(up_disk, others) = Surviving(up_prev, others)

\* a filtered run changed the manifest and two items it does not name stayed
C10_Witness ==
    /\ up_runs >= 1 /\ up_opts.ids # {}
    /\ up_disk # up_prev
    /\ Cardinality((IdsIn(up_prev) \ NamedByFilter(up_prev, up_opts.ids))
                       \ ListedUnder(up_remote, up_opts.ids)) >= 2

\* the ids of the products of the listing, hidden ones included
ListedIds(remote) == {remote[i].id : i \in 1..Len(remote)}

\* C11: an item leaves the manifest only if the remote listing no longer has
\* its id; an item still listed (skipped by id or title, or hidden) stays.
C11_PrunedOnlyIfUnlisted ==
    up_runs >= 1 =>
        \A id \in IdsIn(up_prev) \ IdsIn(up_disk) : id \notin ListedIds(up_remote)

\* the products of this run whose details were fetched, in fetch order
Fetched(disk, remote, opts) ==
    LET known_ids == [i \in 1..Len(disk) |-> disk[i].id]
        scan == ScanProducts(remote, opts, Elems(known_ids),
                             [items |-> <<>>, ids |-> opts.ids, done |-> FALSE])
        sorted == SortedByTitle(scan.items)
    IN  Filter(sorted, {sorted[i] : i \in {k \in 1..Len(sorted) : sorted[k].ok}})

\* the ids of db, in list order
IdSeq(db) == [i \in 1..Len(db) |-> db[i].id]

\* C12: after the merge every fetched item is in the manifest exactly once and
\* as fetched; ids are unique; an id the manifest had keeps its position among
\* the items the manifest had, and new ids follow them.
C12_MergeReplacesInPlace ==
    up_runs >= 1 =>
        LET got_ == Fetched(up_prev, up_remote, up_opts)
            old == IdsIn(up_prev)
        IN  /\ \A k \in 1..Len(got_) :
                  /\ Cardinality({i \in 1..Len(up_disk) : up_disk[i].id = got_[k].id}) = 1
                  /\ ItemOf(up_disk, got_[k].id) = BuildItem(got_[k], up_opts.installers)
            /\ \A i, j \in 1..Len(up_disk) : i # j => up_disk[i].id # up_disk[j].id
            /\ IdSeq(Surviving(up_prev, IdsIn(up_disk)))
                  = SubSeq(IdSeq(up_disk), 1, Cardinality(old \cap IdsIn(up_disk)))

\* the entries of an item, over its four collections
EntriesOf(item) ==
    Elems(item.downloads \o item.galaxyDownloads \o item.sharedDownloads \o item.extras)

\* C13: when an item is replaced by its re-fetched version, an entry that was
\* marked verified and whose name, md5 and size the new item has again is
\* still marked verified.
C13_VerifiedFlagKept ==
    up_runs >= 1 =>
        \A id \in IdsIn(up_prev) \cap IdsIn(up_disk) :
            \A e \in EntriesOf(ItemOf(up_prev, id)), f \in EntriesOf(ItemOf(up_disk, id)) :
                (e.prev_verified /\ e.name # None
                    /\ e.name = f.name /\ e.md5 = f.md5 /\ e.size = f.size)
                => f.prev_verified

C39_UnlistedGone ==
    (/\ up_runs >= 1
     /\ up_opts.ids = {} /\ up_opts.skipids = {}
     /\ ~up_opts.skipknown /\ ~up_opts.updateonly)
    => IdsIn(up_disk) \subseteq ListedIds(up_remote)

(***************************************************************************)
(* The deduplicator driven as cmd_update drives it: successive             *)
(* deDuplicateList calls sharing one clashDict (lines 949-953).            *)
(***************************************************************************)
\* bound: entries fed to one clashDict, over all calls
MaxFed == 4

Entry(n, m, s) == [name |-> n, md5 |-> m, size |-> s]

\* the entries a list may hold: names that collide directly, names that collide
\* with a generated name, a segmented and an unsegmented .bin, a placeholder
EntryPool ==
    { Entry(N_a, "m1", 1), Entry(N_a, "m2", 1), Entry(N_a, "m1", 2),
      Entry(N_a1, "m1", 1), Entry(N_a1, "m2", 1),
      Entry(N_g1, "m1", 1), Entry(N_g1, "m2", 1),
      Entry(N_ga, "m1", 1), Entry(N_ga, "m2", 1),
      Entry(None, NoMd5, 0) }

\* the list with each entry tagged by the position it is fed at
Tagged(list, base) ==
    [i \in 1..Len(list) |->
        [name |-> list[i].name, md5 |-> list[i].md5, size |-> list[i].size, idx |-> base + i]]

InitDedup ==
    DedupIdle /\ DownloadIdle /\ UpdateIdle /\ ManifestIdle /\ VerifyIdle /\ RequestIdle

\* item.<collection> = deDuplicateList(item.<collection>, existingItems)
DedupCall ==
    \E list \in SeqsUpTo(EntryPool, MaxFed - Len(dd_in)) :
        LET r == DeDuplicateList(Tagged(list, Len(dd_in)), dd_seen, <<>>)
        IN  /\ list # <<>>
            /\ dd_in' = dd_in \o list
            /\ dd_seen' = r.seen
            /\ dd_out' = dd_out \o r.out
            /\ dd_calls' = dd_calls + 1
            /\ UNCHANGED nonDdVars

\* existingItems = {} for the next item
DedupNewItem ==
    /\ dd_calls > 0
    /\ dd_in' = <<>>
    /\ dd_seen' = EmptyDict
    /\ dd_out' = <<>>
    /\ dd_calls' = 0
    /\ UNCHANGED nonDdVars

NextDedup == DedupCall \/ DedupNewItem

SpecDedup == InitDedup /\ [][NextDedup]_vars

(***************************************************************************)
(* Claims about the deduplicator                                           *)
(***************************************************************************)
Pair(e) == <<e.md5, e.size>>
KeptIdx == {dd_out[i].idx : i \in 1..Len(dd_out)}
SameTriple(e, f) == e.name = f.name /\ e.md5 = f.md5 /\ e.size = f.size

WithOrdinal(root, k, ext) == root \o <<"(">> \o Str(k) \o <<")">> \o ext
\* the clashDict holds name with pairs other than the entry's
Collides(e) ==
    e.name \in DOMAIN dd_seen /\ \A i \in 1..Len(dd_seen[e.name]) : dd_seen[e.name][i] # Pair(e)
\* the name the next deDuplicateName call returns for entry e
NextName(e) == DeDuplicateName(e.name, Pair(e), dd_seen).name
\* base and extension of the names that are no segmented .bin part
PlainParts ==
    {[name |-> N_a, base |-> <<"a">>, ext |-> <<".", "x">>],
     [name |-> N_a1, base |-> <<"a", "(", "1", ")">>, ext |-> <<".", "x">>],
     [name |-> N_ga, base |-> <<"g", "-", "a">>, ext |-> BinExt]}
OutNames == [i \in 1..Len(dd_out) |-> dd_out[i].name]

\* C27: whatever the clashDict has come to, an entry whose name base.ext (no
\* segmented .bin part) is recorded with k >= 1 pairs, none its own, and whose
\* base(k).ext is not taken, is named base(k).ext; and entries all named a.x
\* with different (md5, size) come out as a.x, a(1).x, a(2).x in that order.
C27_OrdinalBeforeExt ==
    /\ \A e \in EntryPool : \A p \in PlainParts :
          (e.name = p.name /\ Collides(e)
              /\ WithOrdinal(p.base, Len(dd_seen[e.name]), p.ext) \notin DOMAIN dd_seen)
          => NextName(e) = WithOrdinal(p.base, Len(dd_seen[e.name]), p.ext)
    /\ ((\A i \in 1..Len(dd_in) : dd_in[i].name = N_a)
          /\ \A i, j \in 1..Len(dd_in) : i # j => Pair(dd_in[i]) # Pair(dd_in[j]))
       => OutNames = SubSeq(<<N_a, WithOrdinal(<<"a">>, 1, <<".", "x">>),
                              WithOrdinal(<<"a">>, 2, <<".", "x">>)>>, 1, Len(dd_in))

\* three entries named a.x with different (md5, size) have been fed
C27_Witness ==
    /\ Len(dd_in) = 3
    /\ \A i \in 1..3 : dd_in[i].name = N_a
    /\ \A i, j \in 1..3 : i # j => Pair(dd_in[i]) # Pair(dd_in[j])
    /\ dd_out[3].name = <<"a", "(", "2", ")", ".", "x">>

\* C28: a colliding g-1.bin recorded with k pairs becomes g(k)-1.bin, the
\* ordinal before the segment suffix; a colliding g-a.bin, whose suffix is no
\* number, becomes g-a(k).bin, as any other file would.
C28_OrdinalBeforeSegment ==
    \A e \in EntryPool :
        LET k == Len(dd_seen[e.name])
            segmented == <<"g">> \o <<"(">> \o Str(k) \o <<")">> \o <<"-", "1">> \o BinExt
            plain == <<"g", "-", "a">> \o <<"(">> \o Str(k) \o <<")">> \o BinExt
        IN  /\ (e.name = N_g1 /\ Collides(e) /\ segmented \notin DOMAIN dd_seen)
                => NextName(e) = segmented
            /\ (e.name = N_ga /\ Collides(e) /\ plain \notin DOMAIN dd_seen)
                => NextName(e) = plain

\* both kinds of .bin name have collided and been renamed
C28_Witness ==
    /\ \E i \in 1..Len(dd_out) :
          dd_in[dd_out[i].idx].name = N_g1
              /\ dd_out[i].name = <<"g", "(", "1", ")", "-", "1", ".", "b", "i", "n">>
    /\ \E i \in 1..Len(dd_out) :
          dd_in[dd_out[i].idx].name = N_ga
              /\ dd_out[i].name = <<"g", "-", "a", "(", "1", ")", ".", "b", "i", "n">>

C32_DropsOnlyDuplicates ==
    \A i \in 1..Len(dd_in) :
        (dd_in[i].name # None /\ i \notin KeptIdx) =>
            \E j \in 1..(i - 1) : SameTriple(dd_in[j], dd_in[i])

\* C36: an entry of an earlier collection that was the first fed under its
\* name keeps that name, and an entry of a later collection with the same
\* name and another (md5, size), its (name, md5, size) not fed before, is kept
\* under another name.
C36_EarlierKeepsName ==
    \A i \in 1..Len(dd_in) : \A f \in EntryPool :
        LET e == dd_in[i]
        IN  (/\ e.name # None
             /\ \A j \in 1..(i - 1) : dd_in[j].name # e.name
             /\ f.name = e.name
             /\ Pair(f) # Pair(e)
             /\ \A j \in 1..Len(dd_in) : ~SameTriple(dd_in[j], f))
            => /\ \E k \in 1..Len(dd_out) : dd_out[k].idx = i /\ dd_out[k].name = e.name
               /\ NextName(f) \notin {None, f.name}

\* the entries fed so far that have a name
Resolved == SelectSeq(dd_in, LAMBDA e : e.name # None)

\* C37: every entry whose name is None is kept as it was fed, the kept
\* entries are in the order they were fed, and the clashDict is what it
\* would be had the entries without a name not been fed at all.
C37_PlaceholdersPass ==
    /\ \A i \in 1..Len(dd_in) :
          dd_in[i].name = None =>
              \E k \in 1..Len(dd_out) :
                  /\ dd_out[k].idx = i
                  /\ dd_out[k].name = None
                  /\ Pair(dd_out[k]) = Pair(dd_in[i])
    /\ \A k, l \in 1..Len(dd_out) : k < l => dd_out[k].idx < dd_out[l].idx
    /\ None \notin DOMAIN dd_seen
    /\ dd_seen = DeDuplicateList(Tagged(Resolved, 0), EmptyDict, <<>>).seen

\* two placeholders were fed, one before and one after a named entry that was
\* kept, and a duplicate was dropped
C37_Witness ==
    /\ \E i, j, k \in 1..Len(dd_in) :
          /\ i < j /\ j < k
          /\ dd_in[i].name = None /\ dd_in[k].name = None
          /\ dd_in[j].name # None /\ j \in KeptIdx
    /\ Len(dd_out) < Len(dd_in)

(***************************************************************************)
(* save_manifest step by step, and the load_manifest of a later command    *)
(***************************************************************************)
ItemSlots == {1, 2}

\* the lists of items save_manifest may be handed
SavedLists ==
    {[i \in 1..Len(t) |-> [id |-> i, title |-> t[i]]] :
        t \in SeqsUpTo(Texts, Cardinality(ItemSlots))}

\* the manifest file as save_manifest finds it: absent, or an earlier save
OldFiles ==
    {NoFile, Serialized(<<>>), Serialized(<<[id |-> 1, title |-> <<"a">>]>>)}

InitManifest ==
    /\ DedupIdle
    /\ DownloadIdle
    /\ UpdateIdle
    /\ VerifyIdle
    /\ RequestIdle
    /\ mf_items \in SavedLists
    /\ mf_old \in OldFiles
    /\ mf_file = mf_old
    /\ mf_pc = "idle"
    /\ mf_n = 0
    /\ mf_loaded = NotLoaded

\* codecs.open(MANIFEST_FILENAME, 'w', 'utf-8'): the file is created or emptied
SaveOpen ==
    /\ mf_pc = "idle"
    /\ mf_file' = <<>>
    /\ mf_pc' = "writing"
    /\ UNCHANGED <<nonMfVars, mf_items, mf_old, mf_n, mf_loaded>>

\* print(header, file=w), then pprint.pprint(items, stream=w) piece by piece
SaveWrite ==
    /\ mf_pc = "writing"
    /\ mf_n < Len(Pieces(mf_items))
    /\ mf_file' = mf_file \o Pieces(mf_items)[mf_n + 1]
    /\ mf_n' = mf_n + 1
    /\ UNCHANGED <<nonMfVars, mf_items, mf_old, mf_pc, mf_loaded>>

\* the with block ends: the file is closed
SaveClose ==
    /\ mf_pc = "writing"
    /\ mf_n = Len(Pieces(mf_items))
    /\ mf_pc' = "saved"
    /\ UNCHANGED <<nonMfVars, mf_items, mf_file, mf_old, mf_n, mf_loaded>>

\* the process is interrupted, or a write raises, while the file is open
SaveCrash ==
    /\ mf_pc = "writing"
    /\ mf_pc' = "crashed"
    /\ UNCHANGED <<nonMfVars, mf_items, mf_file, mf_old, mf_n, mf_loaded>>

\* load_manifest in the next command
Load ==
    /\ mf_pc \in {"saved", "crashed"}
    /\ mf_loaded = NotLoaded
    /\ mf_loaded' = LoadManifest(mf_file)
    /\ UNCHANGED <<nonMfVars, mf_items, mf_file, mf_old, mf_pc, mf_n>>

\* load_manifest at the start of a command that no save of this run precedes:
\* the command goes on with the list it got
LoadFirst ==
    /\ mf_pc = "idle"
    /\ mf_loaded' = LoadManifest(mf_file)
    /\ mf_pc' = "loaded"
    /\ UNCHANGED <<nonMfVars, mf_items, mf_file, mf_old, mf_n>>

NextManifest == SaveOpen \/ SaveWrite \/ SaveClose \/ SaveCrash \/ Load \/ LoadFirst

SpecManifest == InitManifest /\ [][NextManifest]_vars

(***************************************************************************)
(* Claims about the manifest file                                          *)
(***************************************************************************)
\* C14: at every point of save_manifest, an interrupted save included, the
\* manifest file is the complete previous text or the complete new text.
C14_SaveAtomic ==
    mf_file \in {mf_old, Serialized(mf_items)}

\* C15: load_manifest after a completed save_manifest(M) returns M, whatever
\* the text fields of M hold.
C15_RoundTrip ==
    (mf_pc = "saved" /\ mf_loaded # NotLoaded) => mf_loaded = Loaded(mf_items)

\* C31: when the manifest file is absent, load_manifest returns the empty
\* list, and the command goes on with what the load of a saved empty manifest
\* gives it.
C31_AbsentIsEmpty ==
    (mf_pc = "loaded" /\ mf_file = NoFile) =>
        /\ mf_loaded = Loaded(<<>>)
        /\ mf_loaded = LoadManifest(Serialized(<<>>))

\* a command has loaded the manifest where there is no manifest file
C31_Witness ==
    /\ mf_pc = "loaded"
    /\ mf_file = NoFile
    /\ mf_loaded.tag = "returned"

(***************************************************************************)
(* cmd_verify over the entries of a game, and the load_manifest of the     *)
(* command run after it                                                    *)
(***************************************************************************)
\* the entries a manifest may hold for the game: with and without md5 and
\* size, and a placeholder without name
VerifyEntries ==
    {[name |-> N_zip, md5 |-> "m1", size |-> 1, prev_verified |-> FALSE],
     [name |-> N_zip, md5 |-> NoMd5, size |-> 1, prev_verified |-> FALSE],
     [name |-> N_zip, md5 |-> "m1", size |-> NoSize, prev_verified |-> FALSE],
     [name |-> N_g1, md5 |-> "m1", size |-> 1, prev_verified |-> FALSE],
     [name |-> None, md5 |-> NoMd5, size |-> NoSize, prev_verified |-> FALSE]}

\* deDuplicateList leaves no two entries of an item with the same name
VerifyLists ==
    {l \in SeqsUpTo(VerifyEntries, MaxEntries) :
        \A i, j \in 1..Len(l) : (i # j /\ l[i].name # None) => l[i].name # l[j].name}

\* the states of a file: absent, sound, wrong md5, wrong size, broken zip
DiskFiles ==
    {NoDiskFile, DiskFile("m1", 1, TRUE), DiskFile("m2", 1, TRUE),
     DiskFile("m1", 2, TRUE), DiskFile("m1", 1, FALSE), DiskFile("m2", 2, FALSE)}

\* a file an earlier run moved to the !orphaned directory
OldOrphan == DiskFile("m0", 3, TRUE)

InitVerify ==
    /\ DedupIdle
    /\ DownloadIdle
    /\ UpdateIdle
    /\ ManifestIdle
    /\ RequestIdle
    /\ vf_manifest \in {[id |-> 1, title |-> "t1", entries |-> l] : l \in VerifyLists}
    /\ vf_opts \in [check_md5 : BOOLEAN, check_filesize : BOOLEAN, check_zips : BOOLEAN,
                    remedy : {"none", "delete", "clean"}]
    /\ vf_dir \in [VerifyNames -> DiskFiles]
    /\ vf_orphan \in {[n \in VerifyNames |-> IF n \in S THEN OldOrphan ELSE NoDiskFile] :
                         S \in SUBSET {N_zip}}
    /\ vf_dir0 = vf_dir
    /\ vf_orphan0 = vf_orphan
    /\ vf_game = vf_manifest
    /\ vf_pc = "start"
    /\ vf_i = 0
    /\ vf_cnt = ZeroCounts
    /\ vf_reload = NotLoaded

\* lines 1420-1449: load_manifest, the games to check, the orphan root dir
VerifyStart ==
    /\ vf_pc = "start"
    /\ vf_game' = vf_manifest
    /\ vf_pc' = "checking"
    /\ UNCHANGED <<nonVfVars, vf_manifest, vf_opts, vf_dir, vf_orphan, vf_dir0, vf_orphan0, vf_i, vf_cnt, vf_reload>>

\* lines 1491-1546 for the next entry of the game
VerifyEntry ==
    /\ vf_pc = "checking"
    /\ vf_i < Len(vf_game.entries)
    /\ LET itm == vf_game.entries[vf_i + 1]
           file == vf_dir[itm.name]
           fail == Fails(vf_opts, itm, file)
           delete == Deletes(vf_opts, itm, file)
           clean == vf_opts.remedy = "clean" /\ fail
           \* shutil.move raises when the destination already exists
           moveFails == clean /\ MoveRaises(vf_orphan, itm.name)
       IN  IF itm.name = None
           THEN /\ vf_i' = vf_i + 1
                /\ UNCHANGED <<vf_dir, vf_orphan, vf_game, vf_pc, vf_cnt>>
           ELSE IF ~file.exists
           THEN /\ vf_i' = vf_i + 1
                /\ vf_cnt' = [vf_cnt EXCEPT !.item = @ + 1, !.missing = @ + 1]
                /\ UNCHANGED <<vf_dir, vf_orphan, vf_game, vf_pc>>
           ELSE /\ vf_cnt' = [vf_cnt EXCEPT
                                 !.item = @ + 1,
                                 !.bad_md5 = @ + Bit(BadMd5(vf_opts, itm, file)),
                                 !.bad_size = @ + Bit(BadSize(vf_opts, itm, file)),
                                 !.bad_zip = @ + Bit(BadZip(vf_opts, itm, file)),
                                 !.del_file = @ + Bit(delete),
                                 !.clean_file = @ + Bit(clean)]
                /\ vf_dir' = IF delete \/ (clean /\ ~moveFails)
                             THEN [vf_dir EXCEPT ![itm.name] = NoDiskFile]
                             ELSE vf_dir
                /\ vf_orphan' = IF clean /\ ~moveFails
                                THEN [vf_orphan EXCEPT ![itm.name] = file]
                                ELSE vf_orphan
                /\ IF moveFails
                   THEN /\ vf_pc' = "crashed"
                        /\ UNCHANGED <<vf_game, vf_i>>
                   ELSE /\ vf_game' = [vf_game EXCEPT !.entries[vf_i + 1].prev_verified = ~fail]
                        /\ vf_i' = vf_i + 1
                        /\ UNCHANGED vf_pc
    /\ UNCHANGED <<nonVfVars, vf_manifest, vf_opts, vf_dir0, vf_orphan0, vf_reload>>

\* lines 1548-1562: the totals are reported and cmd_verify returns
VerifyDone ==
    /\ vf_pc = "checking"
    /\ vf_i = Len(vf_game.entries)
    /\ vf_pc' = "done"
    /\ UNCHANGED <<nonVfVars, vf_manifest, vf_opts, vf_dir, vf_orphan, vf_dir0, vf_orphan0, vf_game, vf_i, vf_cnt, vf_reload>>

\* load_manifest in the command run next: the manifest file as it is then
VerifyReload ==
    /\ vf_pc = "done"
    /\ vf_reload = NotLoaded
    /\ vf_reload' = Loaded(<<vf_manifest>>)
    /\ UNCHANGED <<nonVfVars, vf_manifest, vf_opts, vf_dir, vf_orphan, vf_dir0, vf_orphan0, vf_game, vf_pc, vf_i, vf_cnt>>

NextVerify == VerifyStart \/ VerifyEntry \/ VerifyDone \/ VerifyReload

SpecVerify == InitVerify /\ [][NextVerify]_vars

(***************************************************************************)
(* Claims about cmd_verify                                                 *)
(***************************************************************************)
\* C16: after a verify run the manifest loaded from disk shows, for every
\* entry the run checked, the flag the run computed: verified for an entry
\* that passed, not verified for one that failed.
C16_FlagsPersisted ==
    (vf_pc = "done" /\ vf_reload # NotLoaded) =>
        \A i \in 1..Len(vf_game.entries) :
            vf_reload.items[1].entries[i].prev_verified = vf_game.entries[i].prev_verified

\* the entries the checks have run for: those gone through, and the one the
\* run stopped in
Checked == 1..(IF vf_pc = "crashed" THEN vf_i + 1 ELSE vf_i)
\* entry k has a resolved name and its file was there when the run came to it
Present(k) == vf_game.entries[k].name # None /\ vf_dir0[vf_game.entries[k].name].exists
FoundFile(k) == vf_dir0[vf_game.entries[k].name]
Md5Mismatch(k) ==
    vf_opts.check_md5 /\ vf_game.entries[k].md5 # NoMd5
        /\ vf_game.entries[k].md5 # FoundFile(k).md5
SizeMismatch(k) ==
    vf_opts.check_filesize /\ vf_game.entries[k].size # NoSize
        /\ vf_game.entries[k].size # FoundFile(k).size
ZipMismatch(k) ==
    vf_opts.check_zips /\ EndsWithZip(vf_game.entries[k].name) /\ ~FoundFile(k).zipok
AnyMismatch(k) == Md5Mismatch(k) \/ SizeMismatch(k) \/ ZipMismatch(k)

\* C22: an entry with a resolved name whose file is present comes out of its
\* verification flagged not verified exactly when an enabled, applicable check
\* (md5, size, zip) mismatched, and verified otherwise; each counter counts the
\* entries its check mismatched on, so a disabled check counts nothing.
C22_FlagIffMismatch ==
    /\ \A k \in 1..vf_i :
          Present(k) => (vf_game.entries[k].prev_verified = ~AnyMismatch(k))
    /\ vf_cnt.bad_md5 = Cardinality({k \in Checked : Present(k) /\ Md5Mismatch(k)})
    /\ vf_cnt.bad_size = Cardinality({k \in Checked : Present(k) /\ SizeMismatch(k)})
    /\ vf_cnt.bad_zip = Cardinality({k \in Checked : Present(k) /\ ZipMismatch(k)})
    /\ ~vf_opts.check_md5 => vf_cnt.bad_md5 = 0
    /\ ~vf_opts.check_filesize => vf_cnt.bad_size = 0
    /\ ~vf_opts.check_zips => vf_cnt.bad_zip = 0

\* a finished run with the md5 check disabled: an entry whose file has another
\* md5 came out verified, an entry whose file has another size did not
C22_Witness ==
    /\ vf_pc = "done"
    /\ ~vf_opts.check_md5 /\ vf_opts.check_filesize
    /\ \E j, k \in 1..vf_i :
          /\ Present(j) /\ vf_game.entries[j].md5 # NoMd5
          /\ vf_game.entries[j].md5 # FoundFile(j).md5
          /\ vf_game.entries[j].prev_verified
          /\ Present(k) /\ SizeMismatch(k) /\ ~vf_game.entries[k].prev_verified

\* the entries gone through whose file was not there / failed a check
WasMissing == {k \in 1..vf_i : vf_game.entries[k].name # None /\ ~Present(k)}
Failed == {k \in 1..vf_i : Present(k) /\ AnyMismatch(k)}

\* C23: with delete_on_fail every present file that fails a check is removed,
\* counted once as deleted and once more among the missing items of the
\* totals, however many checks it failed; a file that passes stays as it was
\* and is counted in neither.
C23_DeleteCountsOnce ==
    vf_opts.remedy = "delete" =>
        /\ \A k \in 1..vf_i :
              Present(k) =>
                  IF AnyMismatch(k)
                  THEN ~vf_dir[vf_game.entries[k].name].exists
                  ELSE vf_dir[vf_game.entries[k].name] = FoundFile(k)
        /\ vf_cnt.del_file = Cardinality(Failed)
        /\ vf_cnt.clean_file = 0
        /\ ReportedMissing(vf_cnt) = Cardinality(WasMissing) + Cardinality(Failed)

\* a finished run that deleted a file failing the md5, the size and the zip
\* check and kept a file that passed
C23_Witness ==
    /\ vf_pc = "done"
    /\ vf_opts.remedy = "delete"
    /\ \E j, k \in 1..vf_i :
          /\ Present(j) /\ Md5Mismatch(j) /\ SizeMismatch(j) /\ ZipMismatch(j)
          /\ Present(k) /\ ~AnyMismatch(k)
    /\ vf_cnt.del_file = 1

\* C25: a file that was in the !orphaned directory when the run started is
\* there with the same content whatever the run moved: a failing file of the
\* same relative path does not replace it.
C25_QuarantineKept ==
    \A n \in VerifyNames : vf_orphan0[n].exists => vf_orphan[n] = vf_orphan0[n]

\* clean_on_fail met a failing file whose place in the !orphaned directory was
\* taken: the move raised, both files are where they were
C25_Witness ==
    /\ vf_opts.remedy = "clean"
    /\ vf_pc = "crashed"
    /\ Present(vf_i + 1) /\ AnyMismatch(vf_i + 1)
    /\ vf_orphan0[vf_game.entries[vf_i + 1].name].exists
    /\ vf_dir[vf_game.entries[vf_i + 1].name] = FoundFile(vf_i + 1)

\* C26: the run never stops inside an entry: it goes through every entry of
\* the game and reports the totals.
C26_FullPass ==
    /\ vf_pc # "crashed"
    /\ vf_pc = "done" => vf_i = Len(vf_game.entries)

(***************************************************************************)
(* cmd_download into an empty directory, then cmd_verify over the same     *)
(* entries                                                                 *)
(***************************************************************************)
\* the file name behind a destination path
PathName(p) == IF p = "a" THEN N_zip ELSE N_g1

\* hashfile of a file holding data: the md5 of the whole remote file, or
\* another digest
HashFile(data, sz) == IF data = WholeFile(sz) THEN "m1" ELSE "mx"

\* the manifest entries behind the selection, with the md5 the manifest
\* records for them
EntriesOfSel(sel, md5) ==
    [i \in 1..Len(sel) |->
        IF sel[i].name = NoName
        THEN [name |-> None, md5 |-> NoMd5, size |-> NoSize, prev_verified |-> FALSE]
        ELSE [name |-> PathName(sel[i].name), md5 |-> md5, size |-> sel[i].size,
              prev_verified |-> FALSE]]

\* the game directory as cmd_download left it, seen by hashfile,
\* os.path.getsize and test_zipfile
DirOfFs(dir, zipok) ==
    [n \in VerifyNames |->
        LET p == CHOOSE q \in Paths : PathName(q) = n
        IN  IF dir[p].exists
            THEN DiskFile(HashFile(dir[p].data, FileSize), Len(dir[p].data), zipok)
            ELSE NoDiskFile]

\* the download command is over (it returned, it crashed, or it was
\* interrupted while no worker held an item) and cmd_verify is started on what
\* it left: the manifest records the md5 of the remote content or another
\* one, the remote zip is sound or not, the size and zip checks are enabled
SyncThenVerify ==
    /\ \/ main \in {"returned", "crashed"}
       \/ main = "exited" /\ \A w \in Workers : pc[w] \notin {"prep", "request", "stream"}
    /\ vf_pc = "idle"
    /\ \E md5 \in {"m1", "m2"}, zipok \in BOOLEAN,
          opts \in [check_md5 : BOOLEAN, check_filesize : {TRUE}, check_zips : {TRUE},
                    remedy : {"none", "delete", "clean"}] :
          /\ vf_manifest' = [id |-> 1, title |-> "t1", entries |-> EntriesOfSel(dl_sel, md5)]
          /\ vf_opts' = opts
          /\ vf_dir' = DirOfFs(fs, zipok)
          /\ vf_dir0' = DirOfFs(fs, zipok)
    /\ vf_pc' = "start"
    /\ UNCHANGED <<nonVfVars, vf_orphan, vf_orphan0, vf_game, vf_i, vf_cnt, vf_reload>>

NextSync == NextInterrupt \/ SyncThenVerify \/ VerifyStart \/ VerifyEntry \/ VerifyDone

SpecSync == InitFresh /\ [][NextSync]_vars

\* every selected entry has a name and a size, and every queued transfer
\* has completed; the verify run over them has reported its totals
SyncedAndVerified ==
    /\ \A i \in 1..Len(dl_sel) : dl_sel[i].name # NoName /\ dl_sel[i].size # NoSize
    /\ hist.failed = {} /\ hist.done = hist.queued /\ hist.queued # {}
    /\ \A w \in Workers : pc[w] # "dead"
    /\ vf_pc = "done"
\* the manifest records the md5 of the remote content, or none
RecordsMatch == \A i \in 1..Len(vf_manifest.entries) : vf_manifest.entries[i].md5 = "m1"

\* C24 as claimed: after a sync into an empty directory whose transfers all
\* completed, verify reports as many known items as entries selected, 0 missing
\* items, 0 size mismatches, and 0 md5 mismatches when the records match.
C24_VerifyAfterSyncClean ==
    SyncedAndVerified =>
        /\ vf_cnt.item = Len(dl_sel)
        /\ ReportedMissing(vf_cnt) = 0
        /\ vf_cnt.bad_size = 0
        /\ RecordsMatch => vf_cnt.bad_md5 = 0

\* C24 amended: the same, but the missing items are 0 only when no file was
\* removed: verify ran without delete_on_fail and clean_on_fail, or no md5 or
\* zip check failed; a file removed by the remedy is reported missing.
C24_VerifyAfterSync ==
    SyncedAndVerified =>
        /\ vf_cnt.item = Len(dl_sel)
        /\ vf_cnt.bad_size = 0
        /\ RecordsMatch => vf_cnt.bad_md5 = 0
        /\ (vf_opts.remedy = "none" \/ (vf_cnt.bad_md5 = 0 /\ vf_cnt.bad_zip = 0))
              => ReportedMissing(vf_cnt) = 0
        /\ ReportedMissing(vf_cnt) = 0 => \A n \in VerifyNames : vf_dir[n] = vf_dir0[n]

\* two files downloaded and verified with every check enabled
C24_Witness ==
    /\ SyncedAndVerified
    /\ RecordsMatch
    /\ main = "returned"
    /\ Cardinality(hist.done) = 2
    /\ vf_opts.check_md5 /\ vf_opts.check_filesize /\ vf_opts.check_zips
    /\ vf_cnt.item = 2
    /\ ReportedMissing(vf_cnt) = 0

(***************************************************************************)
(* A call of request() with the default retries                            *)
(***************************************************************************)
InitRequest ==
    /\ DedupIdle
    /\ DownloadIdle
    /\ UpdateIdle
    /\ ManifestIdle
    /\ VerifyIdle
    /\ rq_pc = "call"
    /\ rq_retries = HTTP_RETRY_COUNT
    /\ rq_delay \in {0, HTTP_FETCH_DELAY}
    /\ rq_log = <<>>
    /\ rq_result = NoAttempt

\* one call of request(): sleep, open, and what the outcome leads to; the
\* recursive call at line 186 is the next RequestAttempt
RequestAttempt ==
    /\ rq_pc = "call"
    /\ \E a \in Attempts :
          /\ rq_log' = Append(rq_log, [attempt |-> a, delay |-> rq_delay])
          /\ IF a.kind = "response"
             THEN /\ rq_pc' = "returned"
                  /\ rq_result' = a
                  /\ UNCHANGED <<rq_retries, rq_delay>>
             ELSE IF Caught(a) /\ ~IsPermanent(a) /\ MayRetry(rq_retries)
             THEN /\ rq_retries' = rq_retries - 1
                  /\ rq_delay' = HTTP_RETRY_DELAY
                  /\ UNCHANGED <<rq_pc, rq_result>>
             ELSE /\ rq_pc' = "raised"
                  /\ rq_result' = a
                  /\ UNCHANGED <<rq_retries, rq_delay>>
    /\ UNCHANGED nonRqVars

NextRequest == RequestAttempt

SpecRequest == InitRequest /\ [][NextRequest]_vars

(***************************************************************************)
(* Claims about request()                                                  *)
(***************************************************************************)
PermanentAttempt(a) == a.kind = "HTTPError" /\ a.code \in {404, 403, 503}
TransientAttempt(a) == Caught(a) /\ ~PermanentAttempt(a)

\* C18: an attempt that fails with 404, 403 or 503 is the last attempt of the
\* call, whatever the retries left, and its error is what the call raises.
C18_PermanentNotRetried ==
    \A i \in 1..Len(rq_log) :
        PermanentAttempt(rq_log[i].attempt) =>
            (i = Len(rq_log) /\ rq_pc = "raised" /\ rq_result = rq_log[i].attempt)

\* a permanent error met on a retry, with retries still left
C18_Witness ==
    /\ Len(rq_log) >= 2
    /\ PermanentAttempt(rq_log[Len(rq_log)].attempt)
    /\ rq_retries > 0

\* C19: a call makes at most HTTP_RETRY_COUNT + 1 attempts, every attempt but
\* the last a transient failure; it returns the response of the first attempt
\* that succeeds, and raises the error of its last attempt when none does.
C19_RetriesBounded ==
    /\ Len(rq_log) <= HTTP_RETRY_COUNT + 1
    /\ \A i \in 1..(Len(rq_log) - 1) : TransientAttempt(rq_log[i].attempt)
    /\ rq_pc = "returned" =>
          (rq_log[Len(rq_log)].attempt.kind = "response" /\ rq_result = rq_log[Len(rq_log)].attempt)
    /\ rq_pc = "raised" =>
          (rq_log[Len(rq_log)].attempt.kind # "response" /\ rq_result = rq_log[Len(rq_log)].attempt)
    /\ (rq_pc = "raised" /\ TransientAttempt(rq_result)) => Len(rq_log) = HTTP_RETRY_COUNT + 1
    /\ rq_pc = "call" => (rq_log = <<>> \/ TransientAttempt(rq_log[Len(rq_log)].attempt))

\* every attempt failed with a transient error and the last error was raised
C19_Witness ==
    /\ rq_pc = "raised"
    /\ Len(rq_log) = HTTP_RETRY_COUNT + 1
    /\ TransientAttempt(rq_result)

=============================================================================
